---- MODULE Spec2Model ----
(***************************************************************************)
(* Model of the XRPL credentials sample: the CredentialService             *)
(* (issueCredential, getCredentials, revokeCredential), the accept script, *)
(* the issue scenario, the deposit-preauthorization utilities and the      *)
(* payment of the transfer script, run against a ledger whose responses    *)
(* are the transport's inputs.                                             *)
(*                                                                         *)
(* Conventions.  A JavaScript string is a sequence of code units; a hex    *)
(* string is a sequence of hex digits 0..15.  An optional string parameter *)
(* is "" (or <<>>) when it is undefined or empty: the code only ever tests *)
(* such parameters for truthiness, which treats the two alike.  Other      *)
(* optional values are sequences of length 0 or 1.                         *)
(***************************************************************************)
EXTENDS Integers, Sequences, FiniteSets, TLC

VARIABLES
  ledger,   \* the Credential entries of account_objects, in ledger order
  flags,    \* AccountRoot Flags of the account the deposit utilities configure
  preauths, \* that account's DepositPreauth entries, in ledger order
  input,    \* a call and the transport's answer to it, fixed in advance
  history,  \* what earlier calls achieved, kept for properties over several calls
  last      \* the most recent call: its inputs, what it sent, what came back

vars == <<ledger, flags, preauths, input, history, last>>
depositVars == <<flags, preauths>>

-----------------------------------------------------------------------------
(* Bounds                                                                  *)

MaxCreds == 2     \* Credential entries the ledger holds at once
MaxNodes == 2     \* AffectedNodes entries in one transaction's metadata
MaxPreauths == 2  \* DepositPreauth entries the ledger holds at once

-----------------------------------------------------------------------------
(* Accounts, texts and result codes                                        *)

WalletAddress == "rIssuer"          \* this.wallet.address of the service
Subjects      == {"rAlice", "rBob"}
OtherIssuer   == "rOther"

TypeA == <<65>>                     \* "A"
TypeB == <<66>>                     \* "B"
CredTypes == {TypeA, TypeB}
UriText   == <<117>>                \* "u"
MemoData  == <<109>>                \* "m"
MemoType  == <<116>>                \* "t"

TesSuccess  == "tesSUCCESS"
FailCodes   == {"tecDUPLICATE", "tecNO_ENTRY"}
NoCode      == ""                   \* meta.TransactionResult missing
Codes       == {TesSuccess} \cup FailCodes \cup {NoCode}

lsfAccepted == 65536                \* 0x00010000
lsfDepositAuth == 16777216          \* 0x01000000
lsfDefaultRipple == 8388608         \* 0x00800000, a flag the utilities never touch
asfDepositAuth == 9                 \* SetFlag: 9
VerityAddress == "rVerity"          \* wallet.address of the configured account
RIPPLE_EPOCH_DIFF == 946684800      \* 0x386d4380

-----------------------------------------------------------------------------
(* xrpl library conversions                                                *)

\* TextEncoder: the UTF-8 bytes of one code unit that is not part of a
\* surrogate pair.  A lone surrogate is encoded as U+FFFD.
Utf8Bytes(c) ==
  IF c < 128 THEN <<c>>
  ELSE IF c < 2048 THEN <<192 + (c \div 64), 128 + (c % 64)>>
  ELSE IF c >= 55296 /\ c < 57344 THEN <<239, 191, 189>>
  ELSE <<224 + (c \div 4096), 128 + ((c \div 64) % 64), 128 + (c % 64)>>

\* The UTF-8 bytes of the code point of a surrogate pair.
Utf8BytesOfPair(hi, lo) ==
  LET cp == 65536 + (hi - 55296) * 1024 + (lo - 56320)
  IN <<240 + (cp \div 262144), 128 + ((cp \div 4096) % 64),
       128 + ((cp \div 64) % 64), 128 + (cp % 64)>>

RECURSIVE BytesOfString(_)
BytesOfString(s) ==
  IF s = <<>> THEN <<>>
  ELSE IF /\ Len(s) >= 2 /\ s[1] >= 55296 /\ s[1] < 56320
          /\ s[2] >= 56320 /\ s[2] < 57344
       THEN Utf8BytesOfPair(s[1], s[2]) \o BytesOfString(SubSeq(s, 3, Len(s)))
  ELSE Utf8Bytes(Head(s)) \o BytesOfString(Tail(s))

RECURSIVE HexOfBytes(_)
HexOfBytes(b) ==
  IF b = <<>> THEN <<>>
  ELSE <<Head(b) \div 16, Head(b) % 16>> \o HexOfBytes(Tail(b))

\* convertStringToHex: the upper-case hex of the UTF-8 encoding.
stringToHex(s) == HexOfBytes(BytesOfString(s))

RECURSIVE BytesOfHex(_)
BytesOfHex(h) ==
  IF Len(h) < 2 THEN <<>>
  ELSE <<16 * h[1] + h[2]>> \o BytesOfHex(SubSeq(h, 3, Len(h)))

\* A continuation byte at position k of b.
IsContinuation(b, k) == Len(b) >= k /\ b[k] >= 128 /\ b[k] < 192

\* TextDecoder("utf-8"), not fatal: an ill-formed byte decodes to U+FFFD.
RECURSIVE StringOfBytes(_)
StringOfBytes(b) ==
  IF b = <<>> THEN <<>>
  ELSE IF Head(b) < 128 THEN <<Head(b)>> \o StringOfBytes(Tail(b))
  ELSE IF /\ Head(b) >= 194 /\ Head(b) < 224 /\ IsContinuation(b, 2)
       THEN <<(Head(b) - 192) * 64 + (b[2] - 128)>>
              \o StringOfBytes(SubSeq(b, 3, Len(b)))
  ELSE IF /\ Head(b) >= 224 /\ Head(b) < 240
          /\ IsContinuation(b, 2) /\ IsContinuation(b, 3)
          /\ (Head(b) - 224) * 4096 + (b[2] - 128) * 64 + (b[3] - 128) >= 2048
          /\ (Head(b) - 224) * 64 + (b[2] - 128) \notin 864..895
       THEN <<(Head(b) - 224) * 4096 + (b[2] - 128) * 64 + (b[3] - 128)>>
              \o StringOfBytes(SubSeq(b, 4, Len(b)))
  ELSE IF /\ Head(b) >= 240 /\ Head(b) < 245
          /\ IsContinuation(b, 2) /\ IsContinuation(b, 3) /\ IsContinuation(b, 4)
          /\ (Head(b) - 240) * 64 + (b[2] - 128) \in 16..271
       THEN LET cp == (Head(b) - 240) * 262144 + (b[2] - 128) * 4096
                        + (b[3] - 128) * 64 + (b[4] - 128) - 65536
            IN <<55296 + (cp \div 1024), 56320 + (cp % 1024)>>
                 \o StringOfBytes(SubSeq(b, 5, Len(b)))
  ELSE <<65533>> \o StringOfBytes(Tail(b))

\* TextDecoder without ignoreBOM: a byte order mark at the start is dropped.
StripBOM(s) == IF s # <<>> /\ Head(s) = 65279 THEN Tail(s) ELSE s

\* convertHexToString
hexToString(h) == StripBOM(StringOfBytes(BytesOfHex(h)))

\* An ISO timestamp is [s |-> Unix seconds, ms |-> milliseconds].
\* isoTimeToRippleTime: Math.round(getTime() / 1000) - RIPPLE_EPOCH_DIFF.
isoTimeToRippleTime(iso) ==
  (IF iso.ms >= 500 THEN iso.s + 1 ELSE iso.s) - RIPPLE_EPOCH_DIFF

\* rippleTimeToISOTime: new Date((t + RIPPLE_EPOCH_DIFF) * 1000).toISOString()
rippleTimeToISOTime(t) == [s |-> t + RIPPLE_EPOCH_DIFF, ms |-> 0]

-----------------------------------------------------------------------------
(* Outcomes of a call                                                      *)

Return(v)   == [kind |-> "return", value |-> v]
Throw(m, d) == [kind |-> "throw", message |-> m, detail |-> d]

\* An exception of the transport (autofill, submitAndWait, request) that the
\* service logs and rethrows unchanged.
TransportError == Throw("transport error", "")

\* Faulty variant: the error message leaves the result code out.
CodeOrUnknownDropped(txResult) == "Unknown error"

\* `${txResult || "Unknown error"}`
CodeOrUnknown(txResult) == IF txResult = NoCode THEN "Unknown error" ELSE txResult

\* result.result.hash: the hash of the signed transaction.
TxHash(tx) == <<"hash", tx>>

-----------------------------------------------------------------------------
(* Transport responses                                                     *)

\* One entry of meta.AffectedNodes.
Nodes ==
  { [wrapper |-> "CreatedNode",  LedgerEntryType |-> "Credential",    LedgerIndex |-> "ID1"],
    [wrapper |-> "CreatedNode",  LedgerEntryType |-> "Credential",    LedgerIndex |-> "ID2"],
    [wrapper |-> "CreatedNode",  LedgerEntryType |-> "Credential",    LedgerIndex |-> ""],
    [wrapper |-> "CreatedNode",  LedgerEntryType |-> "DirectoryNode", LedgerIndex |-> "ID3"],
    [wrapper |-> "ModifiedNode", LedgerEntryType |-> "Credential",    LedgerIndex |-> "ID4"] }

NodeLists == UNION { [1..n -> Nodes] : n \in 0..MaxNodes }

\* What autofill + sign + submitAndWait give back for one transaction:
\* an exception, a result without usable meta, or a result with meta.
\* hasNodes is FALSE when meta.AffectedNodes is missing.
Threw       == [threw |-> TRUE,  meta |-> FALSE, code |-> NoCode, hasNodes |-> FALSE, nodes |-> <<>>]
NoMeta      == [threw |-> FALSE, meta |-> FALSE, code |-> NoCode, hasNodes |-> FALSE, nodes |-> <<>>]
WithMeta(c, has, ns) ==
  [threw |-> FALSE, meta |-> TRUE, code |-> c, hasNodes |-> has, nodes |-> ns]

\* Responses whose metadata is only a result code.
PlainResponses == {Threw, NoMeta} \cup { WithMeta(c, FALSE, <<>>) : c \in Codes }

\* Responses to a CredentialCreate, with every shape of AffectedNodes.
CreateResponses ==
  PlainResponses \cup { WithMeta(c, TRUE, ns) : c \in Codes, ns \in NodeLists }

\* The ledger index of the Credential entry (issuer, subject, type).
CredentialIndex(tx) ==
  tx.Subject \o (IF tx.CredentialType = stringToHex(TypeA) THEN "/A" ELSE "/B")

\* What a validating node answers to a CredentialCreate: a result code, and on
\* success the metadata of the entries it touched.
LedgerCreateResponses(tx) ==
  {Threw, NoMeta}
    \cup { WithMeta(c, TRUE, <<>>) : c \in FailCodes }
    \cup { WithMeta(TesSuccess, TRUE,
             << [wrapper |-> "ModifiedNode", LedgerEntryType |-> "AccountRoot",
                 LedgerIndex |-> "ROOT"],
                [wrapper |-> "CreatedNode", LedgerEntryType |-> "Credential",
                 LedgerIndex |-> CredentialIndex(tx)] >>) }

Succeeded(resp) == ~resp.threw /\ resp.meta /\ resp.code = TesSuccess

-----------------------------------------------------------------------------
(* The ledger's Credential entries                                         *)

HasEntry(l, issuer, subject, ctype) ==
  \E i \in 1..Len(l) :
    l[i].Issuer = issuer /\ l[i].Subject = subject /\ l[i].CredentialType = ctype

RECURSIVE RemoveEntry(_, _, _, _)
RemoveEntry(l, issuer, subject, ctype) ==
  IF l = <<>> THEN <<>>
  ELSE IF /\ Head(l).Issuer = issuer /\ Head(l).Subject = subject
          /\ Head(l).CredentialType = ctype
       THEN Tail(l)
  ELSE <<Head(l)>> \o RemoveEntry(Tail(l), issuer, subject, ctype)

\* The entry a CredentialCreate leaves on the ledger (a ledger entry has no Memos).
EntryOfCreate(tx) ==
  [ Issuer |-> tx.Account, Subject |-> tx.Subject,
    CredentialType |-> tx.CredentialType, Flags |-> 0,
    Expiration |-> tx.Expiration, URI |-> tx.URI, Memos |-> <<>> ]

\* The ledger accepts a CredentialCreate only for a new (issuer, subject, type).
CanCreate(l, tx) ==
  /\ Len(l) < MaxCreds
  /\ ~HasEntry(l, tx.Account, tx.Subject, tx.CredentialType)

-----------------------------------------------------------------------------
(* CredentialService.issueCredential                                       *)

NoMemo == <<>>
FullMemo == <<[data |-> MemoData, type |-> MemoType, format |-> <<>>]>>

\* CredentialRequest values the callers pass.
Requests ==
  { [subject |-> "rAlice", credential |-> TypeA,
     expiration |-> <<[s |-> RIPPLE_EPOCH_DIFF + 100, ms |-> 0]>>,
     uri |-> UriText, memo |-> FullMemo],
    [subject |-> "rBob", credential |-> TypeA,
     expiration |-> <<>>, uri |-> <<>>, memo |-> NoMemo],
    [subject |-> "rAlice", credential |-> TypeB,
     expiration |-> <<>>, uri |-> UriText, memo |-> NoMemo],
    [subject |-> "rBob", credential |-> TypeB,
     expiration |-> <<[s |-> RIPPLE_EPOCH_DIFF + 100, ms |-> 0]>>,
     uri |-> <<>>, memo |-> FullMemo] }

\* The Memo object of lines 208-220: MemoType and MemoFormat only when truthy.
MemoOf(m) ==
  [ MemoData   |-> stringToHex(m.data),
    MemoType   |-> IF m.type # <<>> THEN stringToHex(m.type) ELSE <<>>,
    MemoFormat |-> IF m.format # <<>> THEN stringToHex(m.format) ELSE <<>> ]

\* The CredentialCreate transaction of lines 195-222.  An absent field is <<>>.
CredentialCreateTx(request) ==
  [ TransactionType |-> "CredentialCreate",
    Account         |-> WalletAddress,
    Subject         |-> request.subject,
    CredentialType  |-> stringToHex(request.credential),
    Expiration      |-> IF request.expiration # <<>>
                        THEN <<isoTimeToRippleTime(request.expiration[1])>>
                        ELSE <<>>,
    URI             |-> IF request.uri # <<>> THEN stringToHex(request.uri) ELSE <<>>,
    Memos           |-> IF request.memo # <<>> THEN <<MemoOf(request.memo[1])>> ELSE <<>> ]

\* Faulty variant: the last created Credential node instead of the first.
FindCredentialNodeLast(nodes) ==
  LET hits == { i \in 1..Len(nodes) :
                  /\ nodes[i].wrapper = "CreatedNode"
                  /\ nodes[i].LedgerEntryType = "Credential" }
  IN IF hits = {} THEN 0 ELSE CHOOSE i \in hits : \A j \in hits : i >= j

\* AffectedNodes.find(...): the position of the first created Credential
\* node, 0 when there is none.
FindCredentialNode(nodes) ==
  LET hits == { i \in 1..Len(nodes) :
                  /\ nodes[i].wrapper = "CreatedNode"
                  /\ nodes[i].LedgerEntryType = "Credential" }
  IN IF hits = {} THEN 0 ELSE CHOOSE i \in hits : \A j \in hits : i <= j

\* Lines 229-263: what issueCredential makes of the submission's result.
IssueOutcome(resp) ==
  IF resp.threw THEN TransportError
  ELSE IF resp.meta THEN
    LET k == FindCredentialNode(resp.nodes)
    IN IF /\ resp.code = TesSuccess
          /\ resp.hasNodes
          /\ k # 0
          /\ resp.nodes[k].LedgerIndex # ""
       THEN Return(resp.nodes[k].LedgerIndex)
       ELSE Throw("Failed to issue credential", CodeOrUnknown(resp.code))
  ELSE Throw("Transaction result is unknown", "")

\* Faulty variant: the credential is recorded whatever the result code says.
IssueCredentialWithUnconfirmed(request, resp) ==
  LET tx == CredentialCreateTx(request)
  IN /\ ~resp.threw => CanCreate(ledger, tx)
     /\ ledger' = IF ~resp.threw THEN Append(ledger, EntryOfCreate(tx)) ELSE ledger
     /\ last' = [ op |-> "issue", request |-> request, queries |-> 0,
                  txs |-> <<tx>>, resp |-> resp,
                  outcome |-> IssueOutcome(resp) ]
     /\ UNCHANGED depositVars

IssueCredentialWith(request, resp) ==
  LET tx == CredentialCreateTx(request)
  IN /\ Succeeded(resp) => CanCreate(ledger, tx)
     /\ ledger' = IF Succeeded(resp) THEN Append(ledger, EntryOfCreate(tx)) ELSE ledger
     /\ last' = [ op |-> "issue", request |-> request, queries |-> 0,
                  txs |-> <<tx>>, resp |-> resp,
                  outcome |-> IssueOutcome(resp) ]
     /\ UNCHANGED depositVars

\* issueCredential against a validating node.
IssueCredential ==
  /\ \E request \in Requests :
       \E resp \in LedgerCreateResponses(CredentialCreateTx(request)) :
         IssueCredentialWith(request, resp)
  /\ UNCHANGED <<input, history>>

\* issueCredential against a transport that answers with any result shape.
IssueCredentialAnyResponse ==
  /\ input.pending
  /\ IssueCredentialWith(input.request, input.resp)
  /\ input' = [pending |-> FALSE]
  /\ UNCHANGED history

-----------------------------------------------------------------------------
(* CredentialService.getCredentials                                        *)

\* What client.request(account_objects, type credential) gives back: an
\* exception, a result without account_objects, or the ledger's entries.
QueryThrew   == [threw |-> TRUE,  hasList |-> FALSE, list |-> <<>>]
QueryNoList  == [threw |-> FALSE, hasList |-> FALSE, list |-> <<>>]
QueryList(l) == [threw |-> FALSE, hasList |-> TRUE,  list |-> l]
NoQuery      == [threw |-> FALSE, hasList |-> FALSE, list |-> <<"not asked">>]

QueryResponses(l) == {QueryThrew, QueryNoList, QueryList(l)}

\* (Flags & mask) !== 0, for a mask of one bit.
BitSet(f, mask) == (f \div mask) % 2 = 1

\* Faulty variant: the subject filter is not applied.
FilterBySubjectNone(objs, subject) == objs

\* Lines 289-294: the entries kept; every entry when subject is falsy.
FilterBySubject(objs, subject) ==
  IF subject # ""
  THEN LET keep(obj) == obj.Subject = subject IN SelectSeq(objs, keep)
  ELSE objs

\* Lines 322-331: the memo of the first Memos element.
DecodeMemo(m) ==
  [ data   |-> hexToString(m.MemoData),
    type   |-> IF m.MemoType # <<>> THEN hexToString(m.MemoType) ELSE <<>>,
    format |-> IF m.MemoFormat # <<>> THEN hexToString(m.MemoFormat) ELSE <<>> ]

\* Faulty variant: accepted is read from another bit of Flags.
DecodeCredentialWrongBit(credObj) ==
  [ subject    |-> credObj.Subject,
    credential |-> hexToString(credObj.CredentialType),
    accepted   |-> BitSet(credObj.Flags, lsfDepositAuth),
    expiration |-> IF credObj.Expiration # <<>> /\ credObj.Expiration[1] # 0
                   THEN <<rippleTimeToISOTime(credObj.Expiration[1])>>
                   ELSE <<>>,
    uri        |-> IF credObj.URI # <<>> THEN hexToString(credObj.URI) ELSE <<>>,
    memo       |-> IF credObj.Memos # <<>>
                   THEN <<DecodeMemo(credObj.Memos[1])>>
                   ELSE <<>> ]

\* Faulty variant: accepted is true as soon as any flag is set.
DecodeCredentialAnyFlag(credObj) ==
  [ subject    |-> credObj.Subject,
    credential |-> hexToString(credObj.CredentialType),
    accepted   |-> credObj.Flags # 0,
    expiration |-> IF credObj.Expiration # <<>> /\ credObj.Expiration[1] # 0
                   THEN <<rippleTimeToISOTime(credObj.Expiration[1])>>
                   ELSE <<>>,
    uri        |-> IF credObj.URI # <<>> THEN hexToString(credObj.URI) ELSE <<>>,
    memo       |-> IF credObj.Memos # <<>>
                   THEN <<DecodeMemo(credObj.Memos[1])>>
                   ELSE <<>> ]

\* Lines 296-334: one CredentialResponse from one ledger entry.
DecodeCredential(credObj) ==
  [ subject    |-> credObj.Subject,
    credential |-> hexToString(credObj.CredentialType),
    accepted   |-> BitSet(credObj.Flags, lsfAccepted),
    expiration |-> IF credObj.Expiration # <<>> /\ credObj.Expiration[1] # 0
                   THEN <<rippleTimeToISOTime(credObj.Expiration[1])>>
                   ELSE <<>>,
    uri        |-> IF credObj.URI # <<>> THEN hexToString(credObj.URI) ELSE <<>>,
    memo       |-> IF credObj.Memos # <<>>
                   THEN <<DecodeMemo(credObj.Memos[1])>>
                   ELSE <<>> ]

\* Faulty variant: without the guard of lines 284-286 a missing account_objects
\* raises a TypeError at .filter / .map.
GetCredentialsOutcomeNoGuard(subject, qresp) ==
  IF qresp.threw THEN TransportError
  ELSE IF ~qresp.hasList THEN Throw("TypeError", "")
  ELSE LET kept == FilterBySubject(qresp.list, subject)
       IN Return([i \in 1..Len(kept) |-> DecodeCredential(kept[i])])

\* Faulty variant: the account_objects answer that revokeCredential fetched
\* for its own lookup is kept and served to the next getCredentials.
GetCredentialsOutcomeCached(subject, qresp) ==
  LET kept == FilterBySubject(IF last.op = "revoke" /\ last.queries = 1
                                 /\ last.qresp.hasList
                              THEN last.qresp.list ELSE qresp.list, subject)
  IN IF qresp.threw THEN TransportError
     ELSE IF ~qresp.hasList THEN Return(<<>>)
     ELSE Return([i \in 1..Len(kept) |-> DecodeCredential(kept[i])])

\* Lines 281-338: what getCredentials makes of the query's answer.
GetCredentialsOutcome(subject, qresp) ==
  IF qresp.threw THEN TransportError
  ELSE IF ~qresp.hasList THEN Return(<<>>)
  ELSE LET kept == FilterBySubject(qresp.list, subject)
       IN Return([i \in 1..Len(kept) |-> DecodeCredential(kept[i])])

ListFilters == Subjects \cup {""}

GetCredentialsWith(subject, qresp) ==
  /\ last' = [ op |-> "list", subject |-> subject, queries |-> 1, txs |-> <<>>,
               qresp |-> qresp,
               outcome |-> GetCredentialsOutcome(subject, qresp) ]
  /\ UNCHANGED <<ledger, depositVars>>

GetCredentials ==
  /\ \E subject \in ListFilters, qresp \in QueryResponses(ledger) :
       GetCredentialsWith(subject, qresp)
  /\ UNCHANGED <<input, history>>

-----------------------------------------------------------------------------
(* CredentialService.revokeCredential                                      *)

\* Lines 368-373: the transaction of the auto-discovery path.
RevokeTxFound(credentialType, foundSubject) ==
  [ TransactionType |-> "CredentialDelete",
    Account         |-> WalletAddress,
    CredentialType  |-> stringToHex(credentialType),
    Subject         |-> foundSubject,
    Issuer          |-> "" ]

\* Faulty variant: Subject and Issuer are set independently of each other.
RevokeTxExplicitBoth(credentialType, subject, issuer) ==
  [ TransactionType |-> "CredentialDelete",
    Account         |-> WalletAddress,
    CredentialType  |-> stringToHex(credentialType),
    Subject         |-> subject,
    Issuer          |-> issuer ]

\* Lines 396-409: the transaction when subject or issuer is given.
RevokeTxExplicit(credentialType, subject, issuer) ==
  [ TransactionType |-> "CredentialDelete",
    Account         |-> WalletAddress,
    CredentialType  |-> stringToHex(credentialType),
    Subject         |-> IF subject # "" THEN subject ELSE "",
    Issuer          |-> IF subject # "" THEN "" ELSE issuer ]

\* Faulty variant: the first listed credential, whatever its type.
FindMatchedAny(credentials, credentialType) ==
  IF Len(credentials) > 0 THEN 1 ELSE 0

\* credentials.find(cred => cred.credential === credentialType): the position
\* of the first match, 0 when there is none.
FindMatched(credentials, credentialType) ==
  LET hits == { i \in 1..Len(credentials) :
                  credentials[i].credential = credentialType }
  IN IF hits = {} THEN 0 ELSE CHOOSE i \in hits : \A j \in hits : i <= j

\* Lines 380-388 and 417-425: what revokeCredential makes of the result.
RevokeOutcome(tx, resp) ==
  IF resp.threw THEN TransportError
  ELSE IF resp.meta THEN
    IF resp.code = TesSuccess THEN Return(TxHash(tx))
    ELSE Throw("Failed to revoke credential", CodeOrUnknown(resp.code))
  ELSE Throw("Transaction result is unknown", "")

\* Lines 347-409: what revokeCredential does before it submits: how many
\* queries it makes, the transaction it builds (tx, at most one) and, when
\* it stops before submitting, the error it throws (stop, at most one).
RevokePlan(credentialType, subject, issuer, qresp) ==
  IF credentialType = <<>>
  THEN [queries |-> 0, tx |-> <<>>, stop |-> <<Throw("Credential type not specified", "")>>]
  ELSE IF subject = "" /\ issuer = ""
  THEN LET got == GetCredentialsOutcome("", qresp)
       IN IF got.kind = "throw"
          THEN [queries |-> 1, tx |-> <<>>, stop |-> <<got>>]
          ELSE IF Len(got.value) > 0
          THEN LET k == FindMatched(got.value, credentialType)
               IN IF k # 0
                  THEN [queries |-> 1,
                        tx |-> <<RevokeTxFound(credentialType, got.value[k].subject)>>,
                        stop |-> <<>>]
                  ELSE [queries |-> 1, tx |-> <<>>,
                        stop |-> <<Throw("Credential of type not found", credentialType)>>]
          ELSE [queries |-> 1, tx |-> <<>>,
                stop |-> <<Throw("Credential to revoke not found", "")>>]
  ELSE [queries |-> 0, tx |-> <<RevokeTxExplicit(credentialType, subject, issuer)>>,
        stop |-> <<>>]

\* The entry a CredentialDelete addresses: Subject and Issuer default to Account.
DeleteIssuer(tx)  == IF tx.Issuer # "" THEN tx.Issuer ELSE tx.Account
DeleteSubject(tx) == IF tx.Subject # "" THEN tx.Subject ELSE tx.Account

CanDelete(l, tx) == HasEntry(l, DeleteIssuer(tx), DeleteSubject(tx), tx.CredentialType)

NoResponse == [threw |-> FALSE, meta |-> FALSE, code |-> "not sent",
               hasNodes |-> FALSE, nodes |-> <<>>]

RevokeTypes    == CredTypes \cup {<<>>}
RevokeSubjects == Subjects \cup {""}
RevokeIssuers  == {"", OtherIssuer}

\* The answers the read query of a revoke call can get: none is asked for
\* unless the call takes the auto-discovery path.
RevokeQueryResponses(l, credentialType, subject, issuer) ==
  IF credentialType # <<>> /\ subject = "" /\ issuer = ""
  THEN QueryResponses(l) ELSE {NoQuery}

RevokeCredentialWith(credentialType, subject, issuer, qresp, responses) ==
  LET plan == RevokePlan(credentialType, subject, issuer, qresp)
  IN \E resp \in IF plan.tx # <<>> THEN responses ELSE {NoResponse} :
       /\ plan.tx # <<>> /\ Succeeded(resp) => CanDelete(ledger, plan.tx[1])
       /\ ledger' = IF plan.tx # <<>> /\ Succeeded(resp)
                    THEN RemoveEntry(ledger, DeleteIssuer(plan.tx[1]),
                                     DeleteSubject(plan.tx[1]),
                                     plan.tx[1].CredentialType)
                    ELSE ledger
       /\ last' = [ op |-> "revoke", credentialType |-> credentialType,
                    subject |-> subject, issuer |-> issuer,
                    queries |-> plan.queries, qresp |-> qresp,
                    txs |-> plan.tx,
                    resp |-> resp,
                    outcome |-> IF plan.stop # <<>> THEN plan.stop[1]
                                ELSE RevokeOutcome(plan.tx[1], resp) ]
       /\ UNCHANGED depositVars

RevokeCredential ==
  /\ \E credentialType \in RevokeTypes, subject \in RevokeSubjects,
        issuer \in RevokeIssuers :
       \E qresp \in RevokeQueryResponses(ledger, credentialType, subject, issuer) :
         RevokeCredentialWith(credentialType, subject, issuer, qresp, PlainResponses)
  /\ UNCHANGED <<input, history>>

-----------------------------------------------------------------------------
(* examples/accept-credential.ts: runCredentialAcceptScenario              *)

\* What a script run tells its user.
Report(status, hash, code) ==
  [kind |-> "report", status |-> status, hash |-> hash, code |-> code]

\* Lines 65-70.
CredentialAcceptTx(account, issuer, credentialType) ==
  [ TransactionType |-> "CredentialAccept",
    Account         |-> account,
    Issuer          |-> issuer,
    CredentialType  |-> stringToHex(credentialType) ]

\* Lines 82-95: what the script reports for the submission's result.
AcceptOutcome(tx, resp) ==
  IF resp.threw THEN Report("error", <<>>, "")
  ELSE IF resp.meta THEN Report("success", <<TxHash(tx)>>, resp.code)
  ELSE Report("failed", <<>>, "")

\* The ledger accepts a CredentialAccept for an entry not yet accepted.
CanAccept(l, tx) ==
  \E i \in 1..Len(l) :
    /\ l[i].Issuer = tx.Issuer /\ l[i].Subject = tx.Account
    /\ l[i].CredentialType = tx.CredentialType
    /\ ~BitSet(l[i].Flags, lsfAccepted)

MarkAccepted(l, tx) ==
  [ i \in 1..Len(l) |->
      IF /\ l[i].Issuer = tx.Issuer /\ l[i].Subject = tx.Account
         /\ l[i].CredentialType = tx.CredentialType
      THEN [l[i] EXCEPT !.Flags = @ + lsfAccepted]
      ELSE l[i] ]

AcceptCredentialWith(account, credentialType, resp) ==
  LET tx == CredentialAcceptTx(account, WalletAddress, credentialType)
  IN /\ Succeeded(resp) => CanAccept(ledger, tx)
     /\ ledger' = IF Succeeded(resp) THEN MarkAccepted(ledger, tx) ELSE ledger
     /\ last' = [ op |-> "accept", account |-> account,
                  credentialType |-> credentialType, queries |-> 0,
                  txs |-> <<tx>>, resp |-> resp,
                  outcome |-> AcceptOutcome(tx, resp) ]
     /\ UNCHANGED depositVars

AcceptCredential ==
  /\ \E account \in Subjects, credentialType \in CredTypes, resp \in PlainResponses :
       AcceptCredentialWith(account, credentialType, resp)
  /\ UNCHANGED <<input, history>>

-----------------------------------------------------------------------------
(* What the ledger has confirmed so far                                    *)

\* A credential of this issuer: its subject and its CredentialType (hex).
CredentialKey(subject, credentialType) == <<subject, credentialType>>

\* The credential a validated transaction of a call acted on.
KeyOfCall(call) ==
  LET tx == call.txs[1]
  IN IF call.op = "accept" THEN CredentialKey(tx.Account, tx.CredentialType)
     ELSE IF call.op = "revoke" THEN CredentialKey(DeleteSubject(tx), tx.CredentialType)
     ELSE CredentialKey(tx.Subject, tx.CredentialType)

\* accepted: the credentials accepted with tesSUCCESS and not revoked since;
\* revoked: the credentials revoked with tesSUCCESS and not issued since.
\* returned: a checkAndEnableDepositAuth call has returned a value;
\* authorized: the credentials of the DepositPreauth transactions of
\* setupCredentialTypePreauth that ended with tesSUCCESS.
HistoryAfter(h, call) ==
  IF call.op = "ensureDepositAuth"
  THEN [h EXCEPT !.returned = @ \/ call.outcome.kind = "return"]
  ELSE IF call.op = "authorizeCredentialType" /\ Succeeded(call.resp)
  THEN [h EXCEPT !.authorized =
          @ \cup { call.txs[1].AuthorizeCredentials[j] :
                     j \in 1..Len(call.txs[1].AuthorizeCredentials) }]
  ELSE IF call.op \in {"issue", "accept", "revoke"} /\ call.txs # <<>> /\ Succeeded(call.resp)
  THEN LET key == KeyOfCall(call)
       IN IF call.op = "issue" THEN [h EXCEPT !.revoked = @ \ {key}]
          ELSE IF call.op = "accept" THEN [h EXCEPT !.accepted = @ \cup {key}]
          ELSE [h EXCEPT !.accepted = @ \ {key}, !.revoked = @ \cup {key}]
  ELSE h

-----------------------------------------------------------------------------
(* utils/depositPreauthUtils.ts                                            *)

\* Faulty variant: another account flag is asked for.
AccountSetTxOtherFlag ==
  [TransactionType |-> "AccountSet", Account |-> VerityAddress, SetFlag |-> asfDepositAuth - 1]

\* Lines 63-67.
AccountSetTx ==
  [TransactionType |-> "AccountSet", Account |-> VerityAddress, SetFlag |-> asfDepositAuth]

\* The Flags of the account after a validated AccountSet.
ApplyAccountSet(f, tx) ==
  IF tx.SetFlag = asfDepositAuth /\ ~BitSet(f, lsfDepositAuth)
  THEN f + lsfDepositAuth ELSE f

\* Faulty variant: any result with metadata counts as success.
EnableOutcomeAnyCode(resp) ==
  IF resp.threw THEN TransportError
  ELSE IF resp.meta THEN Return(TRUE)
  ELSE Throw("Failed to enable DepositAuth", "")

\* Lines 75-83: what checkAndEnableDepositAuth makes of the result.
EnableOutcome(resp) ==
  IF resp.threw THEN TransportError
  ELSE IF resp.meta /\ resp.code = TesSuccess THEN Return(TRUE)
  ELSE Throw("Failed to enable DepositAuth", "")

\* checkAndEnableDepositAuth.  infoThrew: the account_info request failed.
CheckAndEnableDepositAuth ==
  /\ \E infoThrew \in BOOLEAN :
       LET hasDepositAuth == BitSet(flags, lsfDepositAuth)
           submits == ~infoThrew /\ ~hasDepositAuth
       IN \E resp \in IF submits THEN PlainResponses ELSE {NoResponse} :
            /\ flags' = IF submits /\ Succeeded(resp)
                        THEN ApplyAccountSet(flags, AccountSetTx) ELSE flags
            /\ last' = [ op |-> "ensureDepositAuth", queries |-> 1,
                         infoThrew |-> infoThrew, flagsRead |-> flags,
                         txs |-> IF submits THEN <<AccountSetTx>> ELSE <<>>,
                         resp |-> resp,
                         outcome |-> IF infoThrew THEN TransportError
                                     ELSE IF hasDepositAuth THEN Return(FALSE)
                                     ELSE EnableOutcome(resp) ]
  /\ history' = HistoryAfter(history, last')
  /\ UNCHANGED <<ledger, preauths, input>>

\* Lines 105-109.
DepositPreauthTx(authorizedAddress) ==
  [ TransactionType |-> "DepositPreauth", Account |-> VerityAddress,
    Authorize |-> authorizedAddress, AuthorizeCredentials |-> <<>> ]

\* Faulty variant: the issuer's address is authorized as well.
CredentialTypePreauthTxWithAddress(issuerAddress, credentialType) ==
  [ TransactionType |-> "DepositPreauth", Account |-> VerityAddress,
    Authorize |-> issuerAddress,
    AuthorizeCredentials |->
      << [Issuer |-> issuerAddress, CredentialType |-> credentialType] >> ]

\* Lines 169-180.
CredentialTypePreauthTx(issuerAddress, credentialType) ==
  [ TransactionType |-> "DepositPreauth", Account |-> VerityAddress,
    Authorize |-> "",
    AuthorizeCredentials |->
      << [Issuer |-> issuerAddress, CredentialType |-> credentialType] >> ]

\* status: meta ? meta.TransactionResult : "unknown"
StatusOf(resp) == IF resp.meta THEN resp.code ELSE "unknown"

\* Lines 115-121: the value setupDepositPreauth returns.
AddressPreauthOutcome(tx, resp) ==
  IF resp.threw THEN TransportError
  ELSE Return([address |-> tx.Authorize, hash |-> TxHash(tx), status |-> StatusOf(resp)])

\* Lines 187-192: the value setupCredentialTypePreauth returns.
CredentialTypePreauthOutcome(tx, resp) ==
  IF resp.threw THEN TransportError
  ELSE Return([hash |-> TxHash(tx), status |-> StatusOf(resp)])

\* The DepositPreauth entry a transaction leaves on the ledger.
EntryOfPreauth(tx) ==
  [Authorize |-> tx.Authorize, AuthorizeCredentials |-> tx.AuthorizeCredentials]

\* The ledger accepts a DepositPreauth only for an authorization not yet held.
CanPreauth(l, tx) ==
  /\ Len(l) < MaxPreauths
  /\ \A i \in 1..Len(l) : l[i] # EntryOfPreauth(tx)

SetupDepositPreauthWith(authorizedAddress, resp) ==
  LET tx == DepositPreauthTx(authorizedAddress)
  IN /\ Succeeded(resp) => CanPreauth(preauths, tx)
     /\ preauths' = IF Succeeded(resp)
                    THEN Append(preauths, EntryOfPreauth(tx)) ELSE preauths
     /\ last' = [ op |-> "authorizeAddress", queries |-> 0, txs |-> <<tx>>,
                  resp |-> resp, outcome |-> AddressPreauthOutcome(tx, resp) ]
     /\ UNCHANGED <<ledger, flags>>

SetupDepositPreauth ==
  /\ \E authorizedAddress \in Subjects, resp \in PlainResponses :
       SetupDepositPreauthWith(authorizedAddress, resp)
  /\ UNCHANGED <<input, history>>

HexTypes == { stringToHex(t) : t \in CredTypes }

PreauthIssuers == {WalletAddress, OtherIssuer}

SetupCredentialTypePreauthWith(issuerAddress, credentialType, resp) ==
  LET tx == CredentialTypePreauthTx(issuerAddress, credentialType)
  IN /\ Succeeded(resp) => CanPreauth(preauths, tx)
     /\ preauths' = IF Succeeded(resp)
                    THEN Append(preauths, EntryOfPreauth(tx)) ELSE preauths
     /\ last' = [ op |-> "authorizeCredentialType", queries |-> 0,
                  issuerAddress |-> issuerAddress,
                  credentialType |-> credentialType,
                  txs |-> <<tx>>, resp |-> resp,
                  outcome |-> CredentialTypePreauthOutcome(tx, resp) ]
     /\ UNCHANGED <<ledger, flags>>

SetupCredentialTypePreauth ==
  /\ \E issuerAddress \in PreauthIssuers, credentialType \in HexTypes,
        resp \in PlainResponses :
       SetupCredentialTypePreauthWith(issuerAddress, credentialType, resp)
  /\ history' = HistoryAfter(history, last')
  /\ UNCHANGED input

RECURSIVE Flatten(_)
Flatten(ss) == IF ss = <<>> THEN <<>> ELSE Head(ss) \o Flatten(Tail(ss))

\* Faulty variant: the entries without Authorize are not filtered out.
DepositPreauthListUnfiltered(objs) ==
  IF Len(objs) > 0
  THEN [i \in 1..Len(objs) |-> objs[i].Authorize]
  ELSE <<>>

\* Lines 136-148: the Authorize of every entry that has one.
DepositPreauthList(objs) ==
  IF Len(objs) > 0
  THEN LET has(a) == a # ""
       IN SelectSeq([i \in 1..Len(objs) |-> objs[i].Authorize], has)
  ELSE <<>>

\* Lines 210-237: every credential of every entry with AuthorizeCredentials.
CredentialTypePreauths(objs) ==
  IF Len(objs) > 0
  THEN LET has(obj) == obj.AuthorizeCredentials # <<>>
           kept == SelectSeq(objs, has)
       IN Flatten([ i \in 1..Len(kept) |->
                    [ j \in 1..Len(kept[i].AuthorizeCredentials) |->
                      [ issuer |-> kept[i].AuthorizeCredentials[j].Issuer,
                        credentialType |->
                          kept[i].AuthorizeCredentials[j].CredentialType ] ] ])
  ELSE <<>>

GetDepositPreauthList ==
  /\ \E threw \in BOOLEAN :
       last' = [ op |-> "listAddressAuth", queries |-> 1, txs |-> <<>>,
                 qresp |-> IF threw THEN QueryThrew ELSE QueryList(preauths),
                 outcome |-> IF threw THEN TransportError
                             ELSE Return(DepositPreauthList(preauths)) ]
  /\ UNCHANGED <<ledger, flags, preauths, input, history>>

GetCredentialTypePreauths ==
  /\ \E threw \in BOOLEAN :
       last' = [ op |-> "listCredentialTypeAuth", queries |-> 1, txs |-> <<>>,
                 qresp |-> IF threw THEN QueryThrew ELSE QueryList(preauths),
                 outcome |-> IF threw THEN TransportError
                             ELSE Return(CredentialTypePreauths(preauths)) ]
  /\ UNCHANGED <<ledger, flags, preauths, input, history>>

-----------------------------------------------------------------------------
(* examples/transfer-to-verity.ts: sendXRP                                 *)

TransferAmount == 1                 \* "1.0" XRP
DropsPerXrp == 1000000

\* (Number.parseFloat(amount) * 1000000).toString()
XrpToDrops(amount) == amount * DropsPerXrp

\* The fee field: prepared.Fee in XRP.
FeeText == "0.000012"

\* Faulty variant: the credential IDs are not put into the transaction.
PaymentTxWithoutIDs(sender, destination, amount, credentialIDs) ==
  [ TransactionType |-> "Payment", Account |-> sender, Destination |-> destination,
    Amount |-> XrpToDrops(amount), CredentialIDs |-> <<>> ]

\* Lines 56-66.  credentialIDs is <<>> when the argument is missing, else
\* <<ids>>; the transaction has CredentialIDs only for a non-empty ids.
PaymentTx(sender, destination, amount, credentialIDs) ==
  [ TransactionType |-> "Payment", Account |-> sender, Destination |-> destination,
    Amount |-> XrpToDrops(amount),
    CredentialIDs |-> IF credentialIDs # <<>> /\ Len(credentialIDs[1]) > 0
                      THEN credentialIDs ELSE <<>> ]

\* Faulty variant: without the catch of lines 103-113 an exception of
\* autofill, sign or submitAndWait reaches the caller.
SendOutcomePropagates(tx, amount, resp) ==
  IF resp.threw
  THEN TransportError
  ELSE IF resp.meta /\ resp.code = TesSuccess
  THEN Return([ success |-> TRUE, from |-> tx.Account, to |-> tx.Destination,
                amount |-> amount, hash |-> <<TxHash(tx)>>, fee |-> <<FeeText>>,
                error |-> <<>> ])
  ELSE Return([ success |-> FALSE, from |-> tx.Account, to |-> tx.Destination,
                amount |-> amount, hash |-> <<TxHash(tx)>>, fee |-> <<FeeText>>,
                error |-> <<CodeOrUnknown(resp.code)>> ])

\* Lines 74-113: the value sendXRP returns.  A missing field is <<>>.
SendOutcome(tx, amount, resp) ==
  IF resp.threw
  THEN Return([ success |-> FALSE, from |-> tx.Account, to |-> tx.Destination,
                amount |-> amount, hash |-> <<>>, fee |-> <<>>,
                error |-> <<"transport error">> ])
  ELSE IF resp.meta /\ resp.code = TesSuccess
  THEN Return([ success |-> TRUE, from |-> tx.Account, to |-> tx.Destination,
                amount |-> amount, hash |-> <<TxHash(tx)>>, fee |-> <<FeeText>>,
                error |-> <<>> ])
  ELSE Return([ success |-> FALSE, from |-> tx.Account, to |-> tx.Destination,
                amount |-> amount, hash |-> <<TxHash(tx)>>, fee |-> <<FeeText>>,
                error |-> <<CodeOrUnknown(resp.code)>> ])

\* The identifiers a payment cites.
CitedIDs(tx) == IF tx.CredentialIDs = <<>> THEN <<>> ELSE tx.CredentialIDs[1]

\* The Credential entries with a given ledger index.
EntriesOfId(l, id) == { i \in 1..Len(l) : CredentialIndex(l[i]) = id }

Expired(entry, closeTime) ==
  entry.Expiration # <<>> /\ entry.Expiration[1] < closeTime

\* The result code of a Payment to the account the deposit utilities
\* configure, in a ledger closing at closeTime: a cited credential must
\* exist, belong to the sender and be accepted (tecBAD_CREDENTIALS) and not
\* be expired (tecEXPIRED); with DepositAuth set the sender must be the
\* destination, be authorized by address, or cite exactly the credentials of
\* one credential-based authorization (tecNO_PERMISSION).
PaymentCode(tx, l, f, p, closeTime) ==
  LET ids == CitedIDs(tx)
      bad == \E k \in 1..Len(ids) :
               \/ EntriesOfId(l, ids[k]) = {}
               \/ \E i \in EntriesOfId(l, ids[k]) :
                    l[i].Subject # tx.Account \/ ~BitSet(l[i].Flags, lsfAccepted)
      expired == \E k \in 1..Len(ids) :
                   \E i \in EntriesOfId(l, ids[k]) : Expired(l[i], closeTime)
      cited == { [Issuer |-> l[i].Issuer, CredentialType |-> l[i].CredentialType] :
                   i \in UNION { EntriesOfId(l, ids[k]) : k \in 1..Len(ids) } }
      authorized ==
        \/ tx.Account = tx.Destination
        \/ \E i \in 1..Len(p) : p[i].Authorize = tx.Account
        \/ /\ ids # <<>>
           /\ \E i \in 1..Len(p) :
                /\ p[i].AuthorizeCredentials # <<>>
                /\ { p[i].AuthorizeCredentials[j] :
                       j \in 1..Len(p[i].AuthorizeCredentials) } = cited
  IN IF bad THEN "tecBAD_CREDENTIALS"
     ELSE IF expired THEN "tecEXPIRED"
     ELSE IF BitSet(f, lsfDepositAuth) /\ ~authorized THEN "tecNO_PERMISSION"
     ELSE TesSuccess

\* What the transport gives back for a Payment: signing throws on an
\* identifier that is not a 256-bit hash; otherwise an exception, a result
\* without meta, or the ledger's result code.
PaymentResponses(tx, l, f, p, closeTime) ==
  IF \E k \in 1..Len(CitedIDs(tx)) : CitedIDs(tx)[k] = ""
  THEN {Threw}
  ELSE {Threw, NoMeta, WithMeta(PaymentCode(tx, l, f, p, closeTime), FALSE, <<>>)}

\* The credentialIDs argument: missing, empty, or one identifier.
SendCredentialIDs ==
  {<<>>, << <<>> >>, << <<"">> >>}
    \cup { << <<CredentialIndex(CredentialCreateTx(r))>> >> : r \in Requests }

\* Close times of the ledger, before and after the expiration of the requests.
CloseTimes == {50, 150}

\* sendXRP(client, sender, destination, amount, credentialIDs).
SendXRPTo(sender, destination, credentialIDs, closeTime) ==
  LET tx == PaymentTx(sender, destination, TransferAmount, credentialIDs)
  IN /\ \E resp \in PaymentResponses(tx, ledger, flags, preauths, closeTime) :
          last' = [ op |-> "send", sender |-> sender,
                    credentialIDs |-> credentialIDs, closeTime |-> closeTime,
                    queries |-> 0, txs |-> <<tx>>, resp |-> resp,
                    outcome |-> SendOutcome(tx, TransferAmount, resp) ]
     /\ UNCHANGED <<ledger, depositVars>>

SendXRPWith(sender, credentialIDs, closeTime) ==
  SendXRPTo(sender, VerityAddress, credentialIDs, closeTime)

\* One payment, from each sender and with each credentialIDs argument.
SendXRP ==
  /\ input.pending
  /\ \E sender \in Subjects, credentialIDs \in SendCredentialIDs,
        closeTime \in CloseTimes :
       SendXRPWith(sender, credentialIDs, closeTime)
  /\ input' = [pending |-> FALSE]
  /\ UNCHANGED history

\* The DepositPreauth entries the utilities can leave on the account.
PreauthEntries ==
  { EntryOfPreauth(DepositPreauthTx(a)) : a \in Subjects }
    \cup { EntryOfPreauth(CredentialTypePreauthTx(i, t)) :
             i \in PreauthIssuers, t \in HexTypes }

PreauthLists ==
  { p \in UNION { [1..n -> PreauthEntries] : n \in 0..MaxPreauths } :
      \A i, j \in 1..Len(p) : i # j => p[i] # p[j] }

-----------------------------------------------------------------------------
(* examples/issue-credential scenario: runXRPLCommunityExamScenario        *)

MemoFormat == <<102>>               \* "f"

\* Lines 63-83: the request of the script.  new Date() carries milliseconds.
ScenarioRequest ==
  [ subject |-> "rAlice", credential |-> TypeA,
    expiration |-> <<[s |-> RIPPLE_EPOCH_DIFF + 100, ms |-> 250]>>,
    uri |-> UriText,
    memo |-> <<[data |-> MemoData, type |-> MemoType, format |-> MemoFormat]>> ]

ScenarioRequests == Requests \cup {ScenarioRequest}

\* The Credential entries the issuer's account can hold when the script starts.
ScenarioLedgers ==
  {<<>>} \cup
  { << [EntryOfCreate(CredentialCreateTx(r)) EXCEPT !.Flags = f] >> :
      r \in Requests, f \in {0, lsfAccepted} }

\* Line 85: issueCredential(credentialRequest); an error ends the run (line 111).
ScenarioIssue ==
  /\ input.pending /\ input.step = "issue"
  /\ \E resp \in LedgerCreateResponses(CredentialCreateTx(input.request)) :
       /\ IssueCredentialWith(input.request, resp)
       /\ input' = IF IssueOutcome(resp).kind = "return"
                   THEN [input EXCEPT !.step = "list"]
                   ELSE [input EXCEPT !.pending = FALSE, !.step = "failed"]
  /\ UNCHANGED history

\* Line 93: getCredentials(aliceWallet.address), the subject of the request.
ScenarioList ==
  /\ input.pending /\ input.step = "list"
  /\ \E qresp \in QueryResponses(ledger) :
       GetCredentialsWith(input.request.subject, qresp)
  /\ input' = [input EXCEPT !.pending = FALSE, !.step = "done"]
  /\ UNCHANGED history

-----------------------------------------------------------------------------
(* The service and the accept script, with the record of what the ledger   *)
(* has confirmed                                                           *)

\* The requests of one credential type, one for each subject.
LifeRequests == { r \in Requests : r.credential = TypeA }

LifeIssue ==
  /\ \E request \in LifeRequests :
       \E resp \in LedgerCreateResponses(CredentialCreateTx(request)) :
         IssueCredentialWith(request, resp)
  /\ history' = HistoryAfter(history, last')
  /\ UNCHANGED input

LifeAccept ==
  /\ \E account \in Subjects, credentialType \in CredTypes, resp \in PlainResponses :
       AcceptCredentialWith(account, credentialType, resp)
  /\ history' = HistoryAfter(history, last')
  /\ UNCHANGED input

LifeRevoke ==
  /\ \E credentialType \in RevokeTypes, subject \in RevokeSubjects,
        issuer \in RevokeIssuers :
       \E qresp \in RevokeQueryResponses(ledger, credentialType, subject, issuer) :
         RevokeCredentialWith(credentialType, subject, issuer, qresp, PlainResponses)
  /\ history' = HistoryAfter(history, last')
  /\ UNCHANGED input

LifeList ==
  /\ \E subject \in ListFilters, qresp \in QueryResponses(ledger) :
       GetCredentialsWith(subject, qresp)
  /\ UNCHANGED <<input, history>>

-----------------------------------------------------------------------------

NoInput == [pending |-> FALSE]

\* Nothing has been accepted, revoked or authorized, and no call has returned.
NoHistory == [accepted |-> {}, revoked |-> {}, returned |-> FALSE, authorized |-> {}]

Init ==
  /\ ledger = <<>>
  /\ flags = 0
  /\ preauths = <<>>
  /\ input = NoInput
  /\ history = NoHistory
  /\ last = [op |-> "none"]

Next ==
  \/ IssueCredential
  \/ GetCredentials
  \/ RevokeCredential
  \/ AcceptCredential

Spec == Init /\ [][Next]_vars

\* Every request and every response shape, one call each.
InitIssue ==
  /\ ledger = <<>>
  /\ flags = 0
  /\ preauths = <<>>
  /\ input \in { [pending |-> TRUE, request |-> r, resp |-> x] :
                   r \in Requests, x \in CreateResponses }
  /\ history = NoHistory
  /\ last = [op |-> "none"]

NextIssue == IssueCredentialAnyResponse

SpecIssue == InitIssue /\ [][NextIssue]_vars

\* The deposit-authorization utilities, on an account with or without other flags.
InitDeposit ==
  /\ ledger = <<>>
  /\ flags \in {0, lsfDefaultRipple}
  /\ preauths = <<>>
  /\ input = NoInput
  /\ history = NoHistory
  /\ last = [op |-> "none"]

NextDeposit ==
  \/ CheckAndEnableDepositAuth
  \/ SetupDepositPreauth
  \/ SetupCredentialTypePreauth
  \/ GetDepositPreauthList
  \/ GetCredentialTypePreauths

SpecDeposit == InitDeposit /\ [][NextDeposit]_vars

\* One run of the issue scenario, on each ledger and with each request.
InitScenario ==
  /\ ledger \in ScenarioLedgers
  /\ flags = 0
  /\ preauths = <<>>
  /\ input \in { [pending |-> TRUE, step |-> "issue", request |-> r] :
                   r \in ScenarioRequests }
  /\ history = NoHistory
  /\ last = [op |-> "none"]

NextScenario ==
  \/ ScenarioIssue
  \/ ScenarioList

SpecScenario == InitScenario /\ [][NextScenario]_vars

\* Payments to the configured account, for every credential the issuer's
\* account can hold and every configuration the utilities can leave.
InitPayment ==
  /\ ledger \in ScenarioLedgers
  /\ flags \in {0, lsfDepositAuth}
  /\ preauths \in PreauthLists
  /\ input = [pending |-> TRUE]
  /\ history = NoHistory
  /\ last = [op |-> "none"]

NextPayment == SendXRP

SpecPayment == InitPayment /\ [][NextPayment]_vars

\* The calls of Spec, with the record of what the ledger has confirmed.
NextLife ==
  \/ LifeIssue
  \/ LifeList
  \/ LifeRevoke
  \/ LifeAccept

SpecLife == Init /\ [][NextLife]_vars

-----------------------------------------------------------------------------
(* Claims about issueCredential                                            *)

IsCreatedCredentialWithIndex(node) ==
  /\ node.wrapper = "CreatedNode"
  /\ node.LedgerEntryType = "Credential"
  /\ node.LedgerIndex # ""

IssueCalled == last.op = "issue"

\* C1: issueCredential returns a value only when the result code is
\* tesSUCCESS and AffectedNodes holds a created Credential entry with a
\* ledger index, and the value is the ledger index of the first such entry.
C1_IssueReturnsFirstCreatedCredentialIndex ==
  IssueCalled /\ last.outcome.kind = "return" =>
    /\ ~last.resp.threw /\ last.resp.meta /\ last.resp.code = TesSuccess
    /\ last.resp.hasNodes
    /\ \E i \in 1..Len(last.resp.nodes) :
         /\ IsCreatedCredentialWithIndex(last.resp.nodes[i])
         /\ \A j \in 1..(i - 1) : ~IsCreatedCredentialWithIndex(last.resp.nodes[j])
         /\ last.outcome.value = last.resp.nodes[i].LedgerIndex

\* C1 witness: a return where two created Credential entries carry
\* different ledger indexes.
C1_Witness ==
  /\ IssueCalled /\ last.outcome.kind = "return"
  /\ Len(last.resp.nodes) = 2
  /\ IsCreatedCredentialWithIndex(last.resp.nodes[1])
  /\ IsCreatedCredentialWithIndex(last.resp.nodes[2])
  /\ last.resp.nodes[1].LedgerIndex # last.resp.nodes[2].LedgerIndex

\* C2: for every non-success result code of the CredentialCreate, issue
\* fails with the rejection error carrying that code, and returns nothing.
C2_IssueRejectedCarriesCode ==
  IssueCalled /\ ~last.resp.threw /\ last.resp.meta /\ last.resp.code \in FailCodes =>
    /\ last.outcome.kind = "throw"
    /\ last.outcome.message = "Failed to issue credential"
    /\ last.outcome.detail = last.resp.code

\* C2 witness: a rejected transaction whose metadata nevertheless names a
\* created Credential entry.
C2_Witness ==
  /\ IssueCalled /\ ~last.resp.threw /\ last.resp.meta
  /\ last.resp.code \in FailCodes
  /\ last.resp.hasNodes /\ Len(last.resp.nodes) > 0
  /\ IsCreatedCredentialWithIndex(last.resp.nodes[1])
  /\ last.outcome.kind = "throw"

\* A success result without the created-entry shape the client looks for.
MalformedSuccess ==
  /\ IssueCalled /\ Succeeded(last.resp)
  /\ \/ ~last.resp.hasNodes
     \/ FindCredentialNode(last.resp.nodes) = 0
     \/ last.resp.nodes[FindCredentialNode(last.resp.nodes)].LedgerIndex = ""

\* The message of the error issue raises for a rejected transaction.
RejectedMessages ==
  { IssueOutcome(WithMeta(c, FALSE, <<>>)).message : c \in FailCodes }

\* C3: on a success result whose metadata lacks the created Credential
\* entry (or its ledger index), issue raises an error that is not the error
\* of a rejected transaction, and returns nothing.
C3_MalformedSuccessIsItsOwnError ==
  MalformedSuccess =>
    /\ last.outcome.kind = "throw"
    /\ last.outcome.message \notin RejectedMessages

\* The credential a request describes, as list is said to give it back.
CredentialOfRequest(r) ==
  [ subject |-> r.subject, credential |-> r.credential, accepted |-> FALSE,
    expiration |-> r.expiration, uri |-> r.uri, memo |-> r.memo ]

\* The scenario issued its request and its list query was answered.
IssuedThenListed ==
  /\ input.pending = FALSE /\ input.step = "done"
  /\ last.op = "list" /\ ~last.qresp.threw /\ last.qresp.hasList

\* C11: a successful issue followed immediately by list(subject) returns
\* exactly one credential, whose subject, credentialType, expiration, uri
\* and memo are those of the issued request and whose accepted is false.
C11_IssueThenListReturnsTheRequest ==
  IssuedThenListed =>
    /\ last.outcome.kind = "return"
    /\ last.outcome.value = <<CredentialOfRequest(input.request)>>

-----------------------------------------------------------------------------
(* Claims about the accept script                                          *)

\* C4: accept reports success, with the transaction hash, only when the
\* result code of the CredentialAccept is the success code; for every
\* non-success code it reports failure carrying that code.
C4_AcceptSuccessOnlyOnTesSuccess ==
  last.op = "accept" /\ ~last.resp.threw /\ last.resp.meta =>
    IF last.resp.code = TesSuccess
    THEN /\ last.outcome.status = "success"
         /\ last.outcome.hash = <<TxHash(last.txs[1])>>
    ELSE /\ last.outcome.status # "success"
         /\ last.outcome.code = last.resp.code

-----------------------------------------------------------------------------
(* Claims about revokeCredential                                           *)

RevokeCalled == last.op = "revoke"

\* revoke with neither subject nor issuer, whose read query was answered.
AutoRevoke ==
  /\ RevokeCalled /\ last.credentialType # <<>>
  /\ last.subject = "" /\ last.issuer = ""
  /\ ~last.qresp.threw

\* The ledger entries the read query listed.
Listed == IF last.qresp.hasList THEN last.qresp.list ELSE <<>>

\* The listed entries of the type revoke was called with.
MatchesOfType ==
  { i \in 1..Len(Listed) :
      Listed[i].CredentialType = stringToHex(last.credentialType) }

NotFoundError(o) ==
  /\ o.kind = "throw"
  /\ o.message \in {"Credential of type not found", "Credential to revoke not found"}

\* C5: revoke with neither subject nor issuer: with exactly one credential
\* of the type listed, one CredentialDelete goes out whose Subject is that
\* credential's subject and the call returns the hash on ledger success;
\* with none listed it fails with the not-found error and sends nothing.
C5_AutoRevokeOneOrNone ==
  AutoRevoke =>
    /\ Cardinality(MatchesOfType) = 1 =>
         /\ Len(last.txs) = 1
         /\ last.txs[1].TransactionType = "CredentialDelete"
         /\ \A i \in MatchesOfType : last.txs[1].Subject = Listed[i].Subject
         /\ Succeeded(last.resp) => last.outcome = Return(TxHash(last.txs[1]))
    /\ MatchesOfType = {} =>
         /\ NotFoundError(last.outcome)
         /\ last.txs = <<>>

\* C5 witness: two credentials listed, only the second of the type asked
\* for, and the revocation succeeded.
C5_Witness ==
  /\ AutoRevoke /\ Len(Listed) = 2 /\ MatchesOfType = {2}
  /\ Succeeded(last.resp) /\ last.outcome.kind = "return"

\* C6: revoke with neither subject nor issuer, with two or more credentials
\* of the type listed under different subjects, fails with the not-found
\* error and sends no CredentialDelete.
C6_AmbiguousAutoRevokeSendsNothing ==
  /\ AutoRevoke
  /\ \E i, j \in MatchesOfType : Listed[i].Subject # Listed[j].Subject
  => /\ NotFoundError(last.outcome)
     /\ last.txs = <<>>

\* C7: every CredentialDelete built by revoke carries Subject or Issuer,
\* never both and never neither; a supplied subject is its Subject, a lone
\* supplied issuer is its Issuer, and with either supplied there is one
\* transaction and no read query.
C7_RevokeOneAddressingMode ==
  RevokeCalled =>
    /\ \A k \in 1..Len(last.txs) :
         (last.txs[k].Subject # "") # (last.txs[k].Issuer # "")
    /\ last.credentialType # <<>> /\ (last.subject # "" \/ last.issuer # "") =>
         /\ Len(last.txs) = 1
         /\ last.queries = 0
         /\ last.subject # "" => last.txs[1].Subject = last.subject
         /\ last.subject = "" => last.txs[1].Issuer = last.issuer

\* C7 witness: revoke called with both a subject and an issuer.
C7_Witness ==
  /\ RevokeCalled /\ last.subject # "" /\ last.issuer # ""
  /\ Len(last.txs) = 1

-----------------------------------------------------------------------------
(* Claims about getCredentials                                             *)

ListCalled == last.op = "list"

\* The k-th smallest member of a set of positions.
KthOf(idx, k) == CHOOSE i \in idx : Cardinality({ j \in idx : j < i }) = k - 1

\* A listed credential is the decoding of a ledger entry.
DecodedFrom(cred, entry) ==
  /\ cred.subject = entry.Subject
  /\ stringToHex(cred.credential) = entry.CredentialType
  /\ cred.accepted = BitSet(entry.Flags, lsfAccepted)

\* C9: list with a subject filter returns exactly the entries whose Subject
\* equals the filter, in ledger order; without a filter, one credential per
\* entry.
C9_ListFiltersBySubject ==
  ListCalled /\ ~last.qresp.threw /\ last.qresp.hasList =>
    LET entries == last.qresp.list
        idx == IF last.subject # ""
               THEN { i \in 1..Len(entries) : entries[i].Subject = last.subject }
               ELSE 1..Len(entries)
    IN /\ last.outcome.kind = "return"
       /\ Len(last.outcome.value) = Cardinality(idx)
       /\ \A k \in 1..Len(last.outcome.value) :
            DecodedFrom(last.outcome.value[k], entries[KthOf(idx, k)])

\* C9 witness: a filter that keeps the second of two entries and drops the
\* first.
C9_Witness ==
  /\ ListCalled /\ last.subject # "" /\ last.qresp.hasList
  /\ Len(last.qresp.list) = 2
  /\ last.qresp.list[1].Subject # last.subject
  /\ last.qresp.list[2].Subject = last.subject
  /\ last.outcome.kind = "return" /\ Len(last.outcome.value) = 1

\* C10: list returns the empty sequence, without raising, when the account
\* has no entries or the result has no entry list; it fails only when the
\* query itself fails.
C10_ListEmptyWithoutRaising ==
  ListCalled =>
    /\ last.outcome.kind = "throw" => last.qresp.threw
    /\ ~last.qresp.threw /\ (~last.qresp.hasList \/ last.qresp.list = <<>>) =>
         last.outcome = Return(<<>>)

\* C10 witness: a query result without account_objects, on a ledger that
\* holds credentials.
C10_Witness ==
  /\ ListCalled /\ ~last.qresp.threw /\ ~last.qresp.hasList
  /\ ledger # <<>>
  /\ last.outcome = Return(<<>>)

-----------------------------------------------------------------------------
(* Claims about every mutating operation                                   *)

MutatingOps ==
  { "issue", "accept", "revoke",
    "ensureDepositAuth", "authorizeCredentialType", "authorizeAddress" }

\* C8: for every mutating operation a non-success result code makes the
\* operation fail with an error carrying that code; none returns normally
\* after a rejected submission.
C8_RejectedSubmissionRaisesCode ==
  /\ last.op \in MutatingOps /\ last.txs # <<>>
  /\ ~last.resp.threw /\ last.resp.meta /\ last.resp.code \in FailCodes
  => /\ last.outcome.kind = "throw"
     /\ last.outcome.detail = last.resp.code

-----------------------------------------------------------------------------
(* Claims about a credential's life                                        *)

\* The credential a listed CredentialResponse stands for.
KeyOfListed(cred) == CredentialKey(cred.subject, stringToHex(cred.credential))

\* C12: after an accept of a credential succeeded on the ledger, every list
\* that returns the credential shows it accepted, for as long as it is not
\* revoked; after a revoke succeeded, no list returns the credential until
\* it is issued again.
C12_ListShowsAcceptedAndNotRevoked ==
  ListCalled /\ last.outcome.kind = "return" =>
    \A k \in 1..Len(last.outcome.value) :
      LET cred == last.outcome.value[k]
      IN /\ KeyOfListed(cred) \in history.accepted => cred.accepted
         /\ KeyOfListed(cred) \notin history.revoked

\* C12 witness: a list that returns an accepted credential after another
\* credential was revoked.
C12_Witness ==
  /\ ListCalled /\ last.outcome.kind = "return"
  /\ history.revoked # {}
  /\ \E k \in 1..Len(last.outcome.value) :
       /\ KeyOfListed(last.outcome.value[k]) \in history.accepted
       /\ last.outcome.value[k].accepted

CredentialKeys == { CredentialKey(sub, stringToHex(t)) : sub \in Subjects, t \in CredTypes }

\* What the ledger shows of a credential of this issuer.
ObservedState(l, key) ==
  IF ~HasEntry(l, WalletAddress, key[1], key[2]) THEN "NonExistent"
  ELSE IF \E i \in 1..Len(l) :
            /\ l[i].Issuer = WalletAddress /\ l[i].Subject = key[1]
            /\ l[i].CredentialType = key[2] /\ BitSet(l[i].Flags, lsfAccepted)
       THEN "Accepted"
  ELSE "Unaccepted"

\* The transitions of a credential and the transaction that makes each;
\* a deleted credential is observed as NonExistent.
TransitionBy ==
  [ from \in {"NonExistent", "Unaccepted", "Accepted"},
    to \in {"NonExistent", "Unaccepted", "Accepted"} |->
      IF from = "NonExistent" /\ to = "Unaccepted" THEN "CredentialCreate"
      ELSE IF from = "Unaccepted" /\ to = "Accepted" THEN "CredentialAccept"
      ELSE IF from # "NonExistent" /\ to = "NonExistent" THEN "CredentialDelete"
      ELSE "none" ]

-----------------------------------------------------------------------------
(* Claims about the deposit-authorization utilities                        *)

EnsureCalled == last.op = "ensureDepositAuth"

\* C14: checkAndEnableDepositAuth returns true exactly when it read the
\* DepositAuth bit as unset and the AccountSet it then submitted succeeded;
\* it returns false exactly when the bit was already set, and then submits
\* nothing; when the submitted transaction does not succeed it raises.
C14_EnsureReturnsWhetherItChanged ==
  EnsureCalled =>
    LET wasSet == BitSet(last.flagsRead, lsfDepositAuth)
    IN /\ last.outcome = Return(TRUE) <=>
            /\ ~last.infoThrew /\ ~wasSet
            /\ last.txs = <<AccountSetTx>> /\ Succeeded(last.resp)
       /\ last.outcome = Return(FALSE) <=> ~last.infoThrew /\ wasSet
       /\ wasSet => last.txs = <<>>
       /\ last.txs # <<>> /\ ~Succeeded(last.resp) => last.outcome.kind = "throw"
       /\ last.outcome.kind = "return" => last.outcome.value \in BOOLEAN

\* C14 witness: the bit is unset next to another flag that is set, and the
\* AccountSet succeeds.
C14_Witness ==
  /\ EnsureCalled /\ last.flagsRead = lsfDefaultRipple
  /\ last.outcome = Return(TRUE)
  /\ flags = lsfDefaultRipple + lsfDepositAuth

\* C15: once a call of checkAndEnableDepositAuth has returned, no later call
\* submits a transaction, and every later call whose account_info request is
\* answered returns false.
C15_EnsureIsIdempotent ==
  [][ history.returned /\ last'.op = "ensureDepositAuth" =>
        /\ last'.txs = <<>>
        /\ ~last'.infoThrew => last'.outcome = Return(FALSE) ]_vars

\* C15 witness: a call returns false after an earlier one returned, with
\* pre-authorizations set up in between.
C15_Witness ==
  /\ EnsureCalled /\ history.returned /\ last.outcome = Return(FALSE)
  /\ preauths # <<>>

AuthorizeTypeCalled == last.op = "authorizeCredentialType"

\* A list call whose account_objects request was answered.
AddressListAnswered == last.op = "listAddressAuth" /\ last.outcome.kind = "return"
TypeListAnswered == last.op = "listCredentialTypeAuth" /\ last.outcome.kind = "return"

\* C16: setupCredentialTypePreauth submits exactly one DepositPreauth whose
\* AuthorizeCredentials holds the one (issuer, credentialType) pair passed to
\* the call and which authorizes no address; every pair so authorized with
\* tesSUCCESS is in what getCredentialTypePreauths returns afterwards.
C16_AuthorizeTypeSendsOnePair ==
  /\ AuthorizeTypeCalled =>
       /\ Len(last.txs) = 1
       /\ last.txs[1].TransactionType = "DepositPreauth"
       /\ last.txs[1].AuthorizeCredentials =
            << [Issuer |-> last.issuerAddress, CredentialType |-> last.credentialType] >>
       /\ last.txs[1].Authorize = ""
  /\ TypeListAnswered =>
       \A pair \in history.authorized :
         \E k \in 1..Len(last.outcome.value) :
           last.outcome.value[k] =
             [issuer |-> pair.Issuer, credentialType |-> pair.CredentialType]

\* C16 witness: a second pair is authorized while the ledger already holds
\* an earlier one.
C16_Witness ==
  /\ AuthorizeTypeCalled /\ Succeeded(last.resp)
  /\ Cardinality(history.authorized) = 2
  /\ Len(last.txs[1].AuthorizeCredentials) = 1

\* C17: getCredentialTypePreauths returns every pair of every entry with
\* AuthorizeCredentials, its credentialType decoded from hex to text: after
\* the encoding of a type T was authorized, the list holds an entry whose
\* credentialType is T.
C17_TypeListIsDecoded ==
  TypeListAnswered =>
    \A pair \in history.authorized :
      \E k \in 1..Len(last.outcome.value) :
        /\ last.outcome.value[k].issuer = pair.Issuer
        /\ last.outcome.value[k].credentialType = hexToString(pair.CredentialType)

\* The positions of the address-based and of the credential-based entries.
AddressEntries(objs) == { i \in 1..Len(objs) : objs[i].Authorize # "" }
CredentialEntries(objs) == { i \in 1..Len(objs) : objs[i].AuthorizeCredentials # <<>> }

\* C18: getDepositPreauthList returns the Authorize address of each
\* address-based DepositPreauth entry, in ledger order, and nothing for a
\* credential-based entry; getCredentialTypePreauths returns nothing for an
\* address-based entry; both return the empty sequence for an account
\* without DepositPreauth entries.
C18_ListsSeparateTheTwoKinds ==
  /\ AddressListAnswered =>
       LET objs == last.qresp.list
       IN /\ Len(last.outcome.value) = Cardinality(AddressEntries(objs))
          /\ \A k \in 1..Len(last.outcome.value) :
               last.outcome.value[k] = objs[KthOf(AddressEntries(objs), k)].Authorize
  /\ TypeListAnswered =>
       LET objs == last.qresp.list
       IN /\ Len(last.outcome.value) = Cardinality(CredentialEntries(objs))
          /\ \A k \in 1..Len(last.outcome.value) :
               \E i \in CredentialEntries(objs) :
                 /\ objs[i].AuthorizeCredentials[1].Issuer = last.outcome.value[k].issuer
                 /\ objs[i].AuthorizeCredentials[1].CredentialType =
                      last.outcome.value[k].credentialType
  /\ (AddressListAnswered \/ TypeListAnswered) /\ last.qresp.list = <<>> =>
       last.outcome.value = <<>>

\* C18 witness: the address list of an account whose first entry is
\* credential-based and whose second is address-based.
C18_Witness ==
  /\ AddressListAnswered /\ Len(last.qresp.list) = 2
  /\ last.qresp.list[1].AuthorizeCredentials # <<>>
  /\ last.qresp.list[2].Authorize # ""
  /\ Len(last.outcome.value) = 1

-----------------------------------------------------------------------------
(* Claims about payments under deposit authorization                       *)

SendAnswered == last.op = "send" /\ ~last.resp.threw /\ last.resp.meta

\* The recipient has DepositAuth set and a credential-based authorization
\* of exactly the pair.
AllowsCredential(pair) ==
  /\ BitSet(flags, lsfDepositAuth)
  /\ \E i \in 1..Len(preauths) : preauths[i].AuthorizeCredentials = <<pair>>

\* The identifiers sendXRP was called with.
PassedIDs == IF last.credentialIDs = <<>> THEN <<>> ELSE last.credentialIDs[1]

\* The caller cites one credential of the sender, of this pair, accepted
\* and not expired when the ledger closes.
CitesValidCredential(pair) ==
  /\ Len(PassedIDs) = 1
  /\ \E i \in EntriesOfId(ledger, PassedIDs[1]) :
       /\ ledger[i].Subject = last.sender
       /\ ledger[i].Issuer = pair.Issuer
       /\ ledger[i].CredentialType = pair.CredentialType
       /\ BitSet(ledger[i].Flags, lsfAccepted)
       /\ ~Expired(ledger[i], last.closeTime)

CredentialPairs ==
  { [Issuer |-> i, CredentialType |-> t] : i \in PreauthIssuers, t \in HexTypes }

SendSucceeded ==
  /\ last.resp.code = TesSuccess
  /\ last.outcome.value.success
  /\ last.outcome.value.error = <<>>

SendDenied ==
  /\ last.resp.code = "tecNO_PERMISSION"
  /\ ~last.outcome.value.success
  /\ last.outcome.value.error = <<"tecNO_PERMISSION">>

AuthorizedByAddress == \E i \in 1..Len(preauths) : preauths[i].Authorize = last.sender

-----------------------------------------------------------------------------
(* Claims about retries and error propagation                              *)

SubmittingOps ==
  {"issue", "accept", "revoke", "ensureDepositAuth", "authorizeCredentialType", "send"}

\* The call submitted a transaction that did not end with tesSUCCESS: the
\* transport threw, the result had no metadata, or the ledger rejected it.
SubmissionFailed == last.txs # <<>> /\ ~Succeeded(last.resp)

\* The caller is told of the failure: by an exception, by a returned status
\* or success field, or by what the script reports.
FailureReachesCaller ==
  \/ last.outcome.kind = "throw"
  \/ /\ last.op = "authorizeCredentialType"
     /\ last.outcome.value.status # TesSuccess
  \/ /\ last.op = "send"
     /\ ~last.outcome.value.success /\ last.outcome.value.error # <<>>
  \/ /\ last.op = "accept"
     /\ last.outcome.status # "success"

\* C20: every call of issue, accept, revoke, checkAndEnableDepositAuth,
\* setupCredentialTypePreauth and sendXRP submits at most one transaction
\* whatever comes back, and a submission that fails is raised or returned
\* to the caller as a failure.
C20_NoRetryNoSuppression ==
  last.op \in SubmittingOps =>
    /\ Len(last.txs) <= 1
    /\ SubmissionFailed => FailureReachesCaller

-----------------------------------------------------------------------------
(* Calls of one CredentialService that the caller does not await one after *)
(* the other.  An async method runs up to its next await in one step:      *)
(* issueCredential awaits client.autofill (line 225) and then              *)
(* client.submitAndWait (line 227); revokeCredential with a subject awaits *)
(* the same two (lines 413 and 415).  The service holds no lock.           *)

MaxCalls == 2     \* calls of the service the caller has started at once

CallIds == 1..MaxCalls

\* A call the caller has not made yet.
IdleCall == [pos |-> "idle", op |-> "none", tx |-> <<>>, outcome |-> <<>>]

\* Lines 195-225: the transaction is built and autofill is called.
AsyncIssueBegin ==
  /\ input.pending
  /\ \E c \in CallIds, request \in LifeRequests :
       /\ input.calls[c].pos = "idle"
       /\ input' = [input EXCEPT !.calls[c] =
                      [ pos |-> "autofill", op |-> "issue",
                        tx |-> <<CredentialCreateTx(request)>>, outcome |-> <<>> ]]
  /\ UNCHANGED <<ledger, depositVars, history, last>>

\* Lines 395-413: revokeCredential(credentialType, subject).
AsyncRevokeBegin ==
  /\ input.pending
  /\ \E c \in CallIds, subject \in Subjects :
       /\ input.calls[c].pos = "idle"
       /\ input' = [input EXCEPT !.calls[c] =
                      [ pos |-> "autofill", op |-> "revoke",
                        tx |-> <<RevokeTxExplicit(TypeA, subject, "")>>,
                        outcome |-> <<>> ]]
  /\ UNCHANGED <<ledger, depositVars, history, last>>

\* Lines 225-227 and 413-415: autofill answers; the call signs and calls
\* submitAndWait, or rethrows the exception of autofill.
AsyncAutofilled ==
  /\ input.pending
  /\ \E c \in CallIds, threw \in BOOLEAN :
       /\ input.calls[c].pos = "autofill"
       /\ input' = [input EXCEPT !.calls[c] =
                      IF threw
                      THEN [@ EXCEPT !.pos = "done", !.outcome = <<TransportError>>]
                      ELSE [@ EXCEPT !.pos = "submit"]]
  /\ UNCHANGED <<ledger, depositVars, history, last>>

\* Lines 227-263 and 415-425: submitAndWait answers with the result of the
\* transaction on the ledger as it is then.
AsyncSettled ==
  /\ input.pending
  /\ \E c \in CallIds :
       LET call == input.calls[c]
           tx == call.tx[1]
       IN /\ call.pos = "submit"
          /\ \E resp \in IF call.op = "issue" THEN LedgerCreateResponses(tx)
                         ELSE PlainResponses :
               LET outcome == IF call.op = "issue" THEN IssueOutcome(resp)
                              ELSE RevokeOutcome(tx, resp)
               IN /\ Succeeded(resp) =>
                       IF call.op = "issue" THEN CanCreate(ledger, tx)
                       ELSE CanDelete(ledger, tx)
                  /\ ledger' =
                       IF ~Succeeded(resp) THEN ledger
                       ELSE IF call.op = "issue"
                       THEN Append(ledger, EntryOfCreate(tx))
                       ELSE RemoveEntry(ledger, DeleteIssuer(tx), DeleteSubject(tx),
                                        tx.CredentialType)
                  /\ input' = [input EXCEPT !.calls[c] =
                                 [@ EXCEPT !.pos = "done", !.outcome = <<outcome>>]]
                  /\ last' = [ op |-> call.op, queries |-> 0, txs |-> <<tx>>,
                               resp |-> resp, outcome |-> outcome ]
  /\ UNCHANGED <<depositVars, history>>

\* getCredentials, whatever the other calls are doing: it takes no lock either.
AsyncList ==
  /\ input.pending
  /\ \E subject \in ListFilters, qresp \in QueryResponses(ledger) :
       GetCredentialsWith(subject, qresp)
  /\ UNCHANGED <<input, history>>

InitAsync ==
  /\ ledger = <<>>
  /\ flags = 0
  /\ preauths = <<>>
  /\ input = [pending |-> TRUE, calls |-> [c \in CallIds |-> IdleCall]]
  /\ history = NoHistory
  /\ last = [op |-> "none"]

NextAsync ==
  \/ AsyncIssueBegin
  \/ AsyncRevokeBegin
  \/ AsyncAutofilled
  \/ AsyncSettled
  \/ AsyncList

SpecAsync == InitAsync /\ [][NextAsync]_vars

-----------------------------------------------------------------------------
(* Claim C21                                                               *)

\* A mutating call is in flight from its autofill until its result is known.
InFlight(call) == call.pos \in {"autofill", "submit"}

\* C21: of the mutating calls made with one signing account, at most one is
\* in flight (between building/autofilling its transaction and knowing its
\* result) at any time.
C21_OneSubmissionInFlight ==
  input.pending =>
    \A c, d \in CallIds :
      InFlight(input.calls[c]) /\ InFlight(input.calls[d]) => c = d

-----------------------------------------------------------------------------
(* The three read operations next to the operations that change what they  *)
(* read                                                                    *)

\* issueCredential and revokeCredential of one credential type, accepted or
\* rejected by the ledger.
ReadsIssue ==
  /\ \E request \in LifeRequests :
       \E resp \in { x \in LedgerCreateResponses(CredentialCreateTx(request)) :
                       x.meta /\ x.code \in {TesSuccess, "tecDUPLICATE"} } :
         IssueCredentialWith(request, resp)
  /\ history' = HistoryAfter(history, last')
  /\ UNCHANGED input

ReadsRevoke ==
  /\ \E subject \in RevokeSubjects :
       \E qresp \in RevokeQueryResponses(ledger, TypeA, subject, "") :
         RevokeCredentialWith(TypeA, subject, "", qresp,
                              { WithMeta(c, FALSE, <<>>) :
                                  c \in {TesSuccess, "tecNO_ENTRY"} })
  /\ history' = HistoryAfter(history, last')
  /\ UNCHANGED input

\* setupDepositPreauth and setupCredentialTypePreauth, one authorization each.
ReadsAuthorizeAddress ==
  /\ \E resp \in { WithMeta(c, FALSE, <<>>) : c \in {TesSuccess, "tecDUPLICATE"} } :
       SetupDepositPreauthWith("rAlice", resp)
  /\ UNCHANGED <<input, history>>

ReadsAuthorizeType ==
  /\ SetupCredentialTypePreauthWith(WalletAddress, stringToHex(TypeA),
                                    WithMeta(TesSuccess, FALSE, <<>>))
  /\ UNCHANGED <<input, history>>

NextReads ==
  \/ ReadsIssue
  \/ ReadsRevoke
  \/ ReadsAuthorizeAddress
  \/ ReadsAuthorizeType
  \/ LifeList
  \/ GetDepositPreauthList
  \/ GetCredentialTypePreauths

SpecReads == Init /\ [][NextReads]_vars

-----------------------------------------------------------------------------
(* Claim C22                                                               *)

ReadCalled == last.op \in {"list", "listAddressAuth", "listCredentialTypeAuth"}

\* The positions of the ledger's entries a list call with this filter shows.
ShownBy(subject) ==
  IF subject # "" THEN { i \in 1..Len(ledger) : ledger[i].Subject = subject }
  ELSE 1..Len(ledger)

\* C22: every list, listAddressAuthorizations and
\* listCredentialTypeAuthorizations call makes exactly one query and sends
\* no transaction; it fails when the query fails, and an answered call
\* returns what the ledger holds at that moment, whatever earlier calls
\* returned.
C22_ReadsAreFresh ==
  ReadCalled =>
    /\ last.queries = 1 /\ last.txs = <<>>
    /\ last.qresp.threw => last.outcome = TransportError
    /\ ~last.qresp.threw /\ last.qresp.hasList =>
         /\ last.outcome.kind = "return"
         /\ last.op = "list" =>
              /\ Len(last.outcome.value) = Cardinality(ShownBy(last.subject))
              /\ \A k \in 1..Len(last.outcome.value) :
                   DecodedFrom(last.outcome.value[k],
                               ledger[KthOf(ShownBy(last.subject), k)])
         /\ last.op = "listAddressAuth" =>
              /\ Len(last.outcome.value) = Cardinality(AddressEntries(preauths))
              /\ \A k \in 1..Len(last.outcome.value) :
                   last.outcome.value[k] =
                     preauths[KthOf(AddressEntries(preauths), k)].Authorize
         /\ last.op = "listCredentialTypeAuth" =>
              /\ Len(last.outcome.value) = Cardinality(CredentialEntries(preauths))
              /\ \A k \in 1..Len(last.outcome.value) :
                   LET entry == preauths[KthOf(CredentialEntries(preauths), k)]
                   IN /\ last.outcome.value[k].issuer =
                           entry.AuthorizeCredentials[1].Issuer
                      /\ last.outcome.value[k].credentialType =
                           entry.AuthorizeCredentials[1].CredentialType

\* C22 witness: a list after a successful revoke shows the one credential
\* that is left, and not the two an earlier list could have shown.
C22_Witness ==
  /\ ListCalled /\ last.subject = ""
  /\ history.revoked # {}
  /\ last.qresp.hasList /\ Len(ledger) = 1
  /\ last.outcome.kind = "return" /\ Len(last.outcome.value) = 1

-----------------------------------------------------------------------------
(* Texts through issueCredential and getCredentials                        *)

MaxText == 2      \* code units of a text a request carries

\* "A", e-acute (two bytes), the euro sign (three bytes), U+FEFF, the two
\* halves of the surrogate pair of U+1F600.
TextUnits == {65, 233, 8364, 65279, 55357, 56832}

Texts == UNION { [1..n -> TextUnits] : n \in 1..MaxText }

\* Requests whose credential, uri and memo data are one text.
TextRequests ==
  { [ subject |-> "rAlice", credential |-> t, expiration |-> <<>>, uri |-> t,
      memo |-> <<[data |-> t, type |-> <<>>, format |-> <<>>]>> ] : t \in Texts }

\* issueCredential of a text request, then getCredentials of its subject.
InitText ==
  /\ ledger = <<>>
  /\ flags = 0
  /\ preauths = <<>>
  /\ input \in { [pending |-> TRUE, step |-> "issue", request |-> r] :
                   r \in TextRequests }
  /\ history = NoHistory
  /\ last = [op |-> "none"]

SpecText == InitText /\ [][NextScenario]_vars

-----------------------------------------------------------------------------
(* Claim C23                                                               *)

\* C23: hex encoding followed by decoding gives back every text, so that the
\* credential listed after an issue shows the credentialType, the uri and
\* the memo data of the request unchanged.
C23_TextRoundTrips ==
  IssuedThenListed =>
    /\ last.outcome.kind = "return"
    /\ Len(last.outcome.value) = 1
    /\ last.outcome.value[1].credential = input.request.credential
    /\ last.outcome.value[1].uri = input.request.uri
    /\ last.outcome.value[1].memo # <<>>
    /\ last.outcome.value[1].memo[1].data = input.request.memo[1].data

-----------------------------------------------------------------------------
(* Expirations through issueCredential, getCredentials and the issue       *)
(* script's own decoding                                                   *)

\* Seconds after the ledger epoch, and the millisecond parts of
\* new Date().toISOString().
TimeSeconds == {1, 2, 100, 200}
TimeMillis == {0, 250, 500, 999}

Times == { [s |-> RIPPLE_EPOCH_DIFF + d, ms |-> m] : d \in TimeSeconds, m \in TimeMillis }

TimeRequests ==
  { [ subject |-> "rAlice", credential |-> TypeA, expiration |-> <<t>>,
      uri |-> <<>>, memo |-> NoMemo ] : t \in Times }

\* examples/issue-credential.ts lines 353-356:
\* new Date((credObj.Expiration + 946684800) * 1000).toISOString()
ManualExpiration(expiration) == [s |-> expiration + 946684800, ms |-> 0]

InitTime ==
  /\ ledger = <<>>
  /\ flags = 0
  /\ preauths = <<>>
  /\ input \in { [pending |-> TRUE, step |-> "issue", request |-> r] :
                   r \in TimeRequests }
  /\ history = NoHistory
  /\ last = [op |-> "none"]

SpecTime == InitTime /\ [][NextScenario]_vars

-----------------------------------------------------------------------------
(* Claim C24                                                               *)

\* C24: the expiration listed after an issue is the timestamp of the
\* request, its sub-second part included, and the issue script's manual
\* decoding of an entry's Expiration gives what the library decoding gives.
C24_TimeRoundTrips ==
  /\ IssuedThenListed =>
       /\ last.outcome.kind = "return"
       /\ Len(last.outcome.value) = 1
       /\ last.outcome.value[1].expiration = input.request.expiration
  /\ \A i \in 1..Len(ledger) :
       ledger[i].Expiration # <<>> =>
         ManualExpiration(ledger[i].Expiration[1]) =
           rippleTimeToISOTime(ledger[i].Expiration[1])

-----------------------------------------------------------------------------
(* utils/inputUtils.ts: getUserConfirmation                                *)

\* String.prototype.toLowerCase on the code units the answers are made of.
ToLowerCase(s) ==
  [i \in 1..Len(s) |-> IF s[i] >= 65 /\ s[i] <= 90 THEN s[i] + 32 ELSE s[i]]

\* Faulty variant: an empty answer counts as the default, yes.
ConfirmsOrEmpty(answer) ==
  answer = <<>> \/ ToLowerCase(answer) = <<121>> \/ ToLowerCase(answer) = <<121, 101, 115>>

\* Line 21: answer.toLowerCase() === "y" || answer.toLowerCase() === "yes"
Confirms(answer) ==
  ToLowerCase(answer) = <<121>> \/ ToLowerCase(answer) = <<121, 101, 115>>

\* What the user types: nothing, y, Y, yes, YES, Yes, n, no, ye, " y", yess.
Answers ==
  { <<>>, <<121>>, <<89>>, <<121, 101, 115>>, <<89, 69, 83>>, <<89, 101, 115>>,
    <<110>>, <<110, 111>>, <<121, 101>>, <<32, 121>>, <<121, 101, 115, 115>> }

-----------------------------------------------------------------------------
(* examples/revoke-credential.ts: runRevokeCredentialScenario, in its two  *)
(* versions: "service" calls CredentialService, "direct" builds the        *)
(* CredentialDelete itself.  input.step is the await the run is at.        *)

CREDENTIAL_TYPE == TypeA

\* The direct version's own getCredentials (lines 479-520).
DirectCredentials(qresp) ==
  IF qresp.hasList /\ Len(qresp.list) > 0
  THEN [ i \in 1..Len(qresp.list) |->
         [ subject        |-> qresp.list[i].Subject,
           credentialType |-> hexToString(qresp.list[i].CredentialType),
           accepted       |-> BitSet(qresp.list[i].Flags, lsfAccepted),
           expiration     |-> IF /\ qresp.list[i].Expiration # <<>>
                                 /\ qresp.list[i].Expiration[1] # 0
                              THEN <<rippleTimeToISOTime(qresp.list[i].Expiration[1])>>
                              ELSE <<>>,
           uri            |-> IF qresp.list[i].URI # <<>>
                              THEN hexToString(qresp.list[i].URI) ELSE <<>> ] ]
  ELSE <<>>

\* credentialsBefore.find(cred => cred.credentialType === CREDENTIAL_TYPE):
\* the position of the first match, 0 when there is none.
FindTarget(credentials) ==
  LET hits == { i \in 1..Len(credentials) :
                  credentials[i].credentialType = CREDENTIAL_TYPE }
  IN IF hits = {} THEN 0 ELSE CHOOSE i \in hits : \A j \in hits : i <= j

\* Lines 439-450 of the direct version: what it makes of the result.
DirectRevokeOutcome(tx, resp) ==
  IF resp.threw THEN TransportError
  ELSE IF resp.meta THEN
    IF resp.code = TesSuccess THEN Return(TxHash(tx))
    ELSE Throw("Transaction failed", CodeOrUnknown(resp.code))
  ELSE Throw("Transaction result is unknown", "")

\* The Credential entries the issuer's account holds when the script starts.
RevokeScriptLedgers ==
  ScenarioLedgers \cup
  { << EntryOfCreate(CredentialCreateTx(r)), EntryOfCreate(CredentialCreateTx(q)) >> :
      r \in { x \in Requests : x.subject = "rBob" },
      q \in { x \in Requests : x.subject = "rAlice" /\ x.credential = CREDENTIAL_TYPE } }

\* client.connect(): before the try block in the service version (line 30),
\* inside it in the direct version (line 378), whose finally block then
\* still runs.
RevokeScriptConnect ==
  /\ input.pending /\ input.step = "connect"
  /\ \E threw \in BOOLEAN :
       input' = IF ~threw
                THEN [input EXCEPT !.connected = TRUE, !.step = "list"]
                ELSE IF input.script = "direct"
                THEN [input EXCEPT !.step = "finally"]
                ELSE [input EXCEPT !.pending = FALSE, !.step = "ended"]
  /\ UNCHANGED <<ledger, depositVars, history, last>>

\* Step 1: the credentials of the issuer's account; none ends the run.
RevokeScriptList ==
  /\ input.pending /\ input.step = "list"
  /\ \E qresp \in QueryResponses(ledger) :
       /\ IF input.script = "service"
          THEN GetCredentialsWith("", qresp)
          ELSE /\ last' = [ op |-> "list", subject |-> "", queries |-> 1,
                            txs |-> <<>>, qresp |-> qresp,
                            outcome |-> IF qresp.threw THEN TransportError
                                        ELSE Return(DirectCredentials(qresp)) ]
               /\ UNCHANGED <<ledger, depositVars>>
       /\ input' = IF last'.outcome.kind = "throw" \/ Len(last'.outcome.value) = 0
                   THEN [input EXCEPT !.step = "finally"]
                   ELSE [input EXCEPT !.step = "prompt", !.seen = last'.outcome.value]
  /\ UNCHANGED history

\* Step 2: getUserConfirmation; anything but a confirmation ends the run.
RevokeScriptPrompt ==
  /\ input.pending /\ input.step = "prompt"
  /\ \E answer \in Answers :
       input' = [input EXCEPT !.answer = <<answer>>,
                              !.confirmed = <<Confirms(answer)>>,
                              !.step = IF Confirms(answer) THEN "revoke" ELSE "finally"]
  /\ UNCHANGED <<ledger, depositVars, history, last>>

\* Step 3: revokeCredential(CREDENTIAL_TYPE) in the service version; in the
\* direct version the target is looked up in the list of step 1 and the
\* CredentialDelete is built and submitted in place.
RevokeScriptRevoke ==
  /\ input.pending /\ input.step = "revoke"
  /\ IF input.script = "service"
     THEN \E qresp \in QueryResponses(ledger) :
            RevokeCredentialWith(CREDENTIAL_TYPE, "", "", qresp, PlainResponses)
     ELSE LET k == FindTarget(input.seen)
              tx == RevokeTxFound(CREDENTIAL_TYPE, input.seen[k].subject)
          IN IF k = 0
             THEN /\ last' = [ op |-> "revoke", queries |-> 0, txs |-> <<>>,
                               resp |-> NoResponse, outcome |-> Return("not found") ]
                  /\ UNCHANGED <<ledger, depositVars>>
             ELSE \E resp \in PlainResponses :
                    /\ Succeeded(resp) => CanDelete(ledger, tx)
                    /\ ledger' = IF Succeeded(resp)
                                 THEN RemoveEntry(ledger, DeleteIssuer(tx),
                                                  DeleteSubject(tx), tx.CredentialType)
                                 ELSE ledger
                    /\ last' = [ op |-> "revoke", queries |-> 0, txs |-> <<tx>>,
                                 resp |-> resp,
                                 outcome |-> DirectRevokeOutcome(tx, resp) ]
                    /\ UNCHANGED depositVars
  /\ input' = [input EXCEPT
                 !.deletes = @ + Len(last'.txs),
                 !.step = IF last'.outcome.kind = "throw" \/ last'.txs = <<>>
                          THEN "finally" ELSE "after"]
  /\ UNCHANGED history

\* Step 4: the credentials after the revocation.
RevokeScriptListAfter ==
  /\ input.pending /\ input.step = "after"
  /\ \E qresp \in QueryResponses(ledger) :
       IF input.script = "service"
       THEN GetCredentialsWith("", qresp)
       ELSE /\ last' = [ op |-> "list", subject |-> "", queries |-> 1,
                         txs |-> <<>>, qresp |-> qresp,
                         outcome |-> IF qresp.threw THEN TransportError
                                     ELSE Return(DirectCredentials(qresp)) ]
            /\ UNCHANGED <<ledger, depositVars>>
  /\ input' = [input EXCEPT !.step = "finally"]
  /\ UNCHANGED history

\* finally { await client.disconnect() }
RevokeScriptDisconnect ==
  /\ input.pending /\ input.step = "finally"
  /\ input' = [input EXCEPT !.connected = FALSE, !.disconnects = @ + 1,
                            !.pending = FALSE, !.step = "ended"]
  /\ UNCHANGED <<ledger, depositVars, history, last>>

InitRevokeScript ==
  /\ ledger \in RevokeScriptLedgers
  /\ flags = 0
  /\ preauths = <<>>
  /\ input \in { [ pending |-> TRUE, script |-> s, step |-> "connect",
                   connected |-> FALSE, disconnects |-> 0, before |-> ledger,
                   seen |-> <<>>, answer |-> <<>>, confirmed |-> <<>>,
                   deletes |-> 0 ] :
                   s \in {"service", "direct"} }
  /\ history = NoHistory
  /\ last = [op |-> "none"]

NextRevokeScript ==
  \/ RevokeScriptConnect
  \/ RevokeScriptList
  \/ RevokeScriptPrompt
  \/ RevokeScriptRevoke
  \/ RevokeScriptListAfter
  \/ RevokeScriptDisconnect

SpecRevokeScript == InitRevokeScript /\ [][NextRevokeScript]_vars

-----------------------------------------------------------------------------
(* Claim C25                                                               *)

\* The answers that confirm: "y" and "yes" in any mix of cases.
YesAnswers ==
  { <<a>> : a \in {121, 89} }
    \cup { <<a, b, c>> : a \in {121, 89}, b \in {101, 69}, c \in {115, 83} }

\* C25: the revoke scripts submit a CredentialDelete only after the user
\* answered the prompt with "y" or "yes" in any mix of cases; after any
\* other answer, the empty one included, the run ends with no transaction
\* submitted, the ledger as it was and the client disconnected.
C25_RevokeOnlyWhenConfirmed ==
  /\ input.answer # <<>> => input.confirmed = <<input.answer[1] \in YesAnswers>>
  /\ input.deletes > 0 => input.confirmed = <<TRUE>>
  /\ input.step \in {"revoke", "after"} => input.confirmed = <<TRUE>>
  /\ input.confirmed = <<FALSE>> =>
       /\ input.deletes = 0
       /\ ledger = input.before
       /\ input.step \in {"finally", "ended"}
       /\ input.step = "ended" => ~input.connected /\ input.disconnects = 1

\* C25 witness: the run has ended after the empty answer, on a ledger that
\* holds the credential the script would have revoked.
C25_Witness ==
  /\ input.step = "ended" /\ input.answer = << <<>> >>
  /\ HasEntry(ledger, WalletAddress, "rAlice", stringToHex(CREDENTIAL_TYPE))
  /\ ~input.connected /\ input.disconnects = 1

-----------------------------------------------------------------------------
(* The .env file of the issue scripts.  The file is a sequence of lines,   *)
(* each an entry KEY=value (quoted or not) or a comment (key "#"); of the  *)
(* keys the scripts use only CREDENTIAL_ID has a line that holds the text  *)
(* "CREDENTIAL_ID=".  input.env is <<>> when the file does not exist, else *)
(* <<lines>>.                                                              *)

EnvLine(key, value, quoted) == [key |-> key, value |-> value, quoted |-> quoted]

\* The position of the first line the regular expression matches
\* (/^CREDENTIAL_ID=.*$/m, and /CREDENTIAL_ID=.*/ of the direct script),
\* 0 when no line does.
FirstIdLine(lines) ==
  LET hits == { i \in 1..Len(lines) : lines[i].key = "CREDENTIAL_ID" }
  IN IF hits = {} THEN 0 ELSE CHOOSE i \in hits : \A j \in hits : i <= j

\* Faulty variant: the line is appended whether or not the file has one.
ReplaceOrAppendAlways(lines, line) == Append(lines, line)

\* content.replace(regex, line) when the regex matches, else content += line.
ReplaceOrAppend(lines, line) ==
  IF FirstIdLine(lines) # 0
  THEN [lines EXCEPT ![FirstIdLine(lines)] = line]
  ELSE Append(lines, line)

\* scenario script, updateEnvWithCredentialId (lines 121-145): nothing is
\* written when the file does not exist or the write fails.
UpdateEnvWithCredentialId(env, credentialId, wrote) ==
  IF env # <<>> /\ wrote
  THEN <<ReplaceOrAppend(env[1], EnvLine("CREDENTIAL_ID", credentialId, TRUE))>>
  ELSE env

\* direct script, lines 301-315: the same without the quotes.
SaveCredentialId(env, credentialId, wrote) ==
  IF env # <<>> /\ wrote
  THEN <<ReplaceOrAppend(env[1], EnvLine("CREDENTIAL_ID", credentialId, FALSE))>>
  ELSE env

\* The file createAccounts writes (lines 509-532), shortened to one account
\* entry, and the same file after an earlier issue script has run.
EnvTemplate(value, quoted) ==
  << EnvLine("#", "XRPL Account Information (Issuer)", FALSE),
     EnvLine("XRPL_ACCOUNT_ADDRESS", WalletAddress, TRUE),
     EnvLine("CREDENTIAL_TYPE", "XRPLCommunityExamCertification", TRUE),
     EnvLine("#", "Credential ID (Issued transaction ID - for reference)", FALSE),
     EnvLine("CREDENTIAL_ID", value, quoted) >>

\* The files a run can find: none; the template, fresh or rewritten by
\* either script; a file written by hand without the CREDENTIAL_ID line, or
\* with that line first.
EnvStores ==
  {<<>>}
    \cup { <<EnvTemplate(v, q)>> : v \in {"", "OLD"}, q \in BOOLEAN }
    \cup { << << EnvLine("XRPL_ACCOUNT_ADDRESS", WalletAddress, TRUE),
                 EnvLine("CREDENTIAL_TYPE", "XRPLCommunityExamCertification", TRUE) >> >>,
           << << EnvLine("CREDENTIAL_ID", "OLD", FALSE),
                 EnvLine("XRPL_ACCOUNT_ADDRESS", WalletAddress, TRUE) >> >> }

\* Scenario script lines 85-89: issueCredential, then
\* updateEnvWithCredentialId with what it returned.
EnvScenarioIssue ==
  /\ input.pending /\ input.script = "scenario"
  /\ \E resp \in CreateResponses, wrote \in BOOLEAN :
       /\ IssueCredentialWith(input.request, resp)
       /\ input' = [input EXCEPT
                      !.pending = FALSE,
                      !.env = IF IssueOutcome(resp).kind = "return"
                              THEN UpdateEnvWithCredentialId(@, IssueOutcome(resp).value,
                                                             wrote)
                              ELSE @]
  /\ UNCHANGED history

\* What the direct script (lines 263-382) makes of the result: the
\* identifier it found ("" when it found none), or the error it throws.
\* Reading a missing file, or a failed write, throws as well.
DirectIssueOutcome(resp, env, wrote) ==
  IF resp.threw THEN TransportError
  ELSE IF resp.meta THEN
    IF resp.code = TesSuccess
    THEN LET k == IF resp.hasNodes THEN FindCredentialNode(resp.nodes) ELSE 0
             credentialId == IF k # 0 THEN resp.nodes[k].LedgerIndex ELSE ""
         IN IF credentialId # "" /\ (env = <<>> \/ ~wrote)
            THEN Throw("file error", "")
            ELSE Return(credentialId)
    ELSE Throw("Transaction failed", CodeOrUnknown(resp.code))
  ELSE Throw("Transaction result is unknown", "")

\* Direct script lines 263-315: submit the CredentialCreate, find the
\* identifier, save it if there is one.
EnvDirectIssue ==
  /\ input.pending /\ input.script = "direct"
  /\ \E resp \in CreateResponses, wrote \in BOOLEAN :
       LET tx == CredentialCreateTx(input.request)
           outcome == DirectIssueOutcome(resp, input.env, wrote)
       IN /\ Succeeded(resp) => CanCreate(ledger, tx)
          /\ ledger' = IF Succeeded(resp) THEN Append(ledger, EntryOfCreate(tx))
                       ELSE ledger
          /\ last' = [ op |-> "issue", request |-> input.request, queries |-> 0,
                       txs |-> <<tx>>, resp |-> resp, outcome |-> outcome ]
          /\ input' = [input EXCEPT
                         !.pending = FALSE,
                         !.env = IF outcome.kind = "return" /\ outcome.value # ""
                                 THEN SaveCredentialId(@, outcome.value, wrote)
                                 ELSE @]
  /\ UNCHANGED <<depositVars, history>>

InitEnv ==
  /\ ledger = <<>>
  /\ flags = 0
  /\ preauths = <<>>
  /\ input \in { [ pending |-> TRUE, script |-> s, request |-> ScenarioRequest,
                   env |-> e, before |-> e ] :
                   s \in {"scenario", "direct"}, e \in EnvStores }
  /\ history = NoHistory
  /\ last = [op |-> "none"]

NextEnv ==
  \/ EnvScenarioIssue
  \/ EnvDirectIssue

SpecEnv == InitEnv /\ [][NextEnv]_vars

-----------------------------------------------------------------------------
(* Claim C26                                                               *)

\* The lines of a file other than its CREDENTIAL_ID entries.
OtherLines(lines) ==
  LET other(line) == line.key # "CREDENTIAL_ID" IN SelectSeq(lines, other)

\* The issuance succeeded and its metadata names the created entry.
YieldedIdentifier ==
  /\ Succeeded(last.resp) /\ last.resp.hasNodes
  /\ \E i \in 1..Len(last.resp.nodes) :
       IsCreatedCredentialWithIndex(last.resp.nodes[i])

\* C26: a run of an issue script changes the .env file only after an
\* issuance that succeeded and yielded a ledger-entry identifier; the file
\* then has exactly one CREDENTIAL_ID entry, whose value is that identifier,
\* and its other lines are the ones it had, in their order; after a failed
\* issuance the file is as it was.
C26_StoreHoldsLatestCredentialId ==
  ~input.pending =>
    /\ input.env # input.before =>
         /\ YieldedIdentifier
         /\ input.env # <<>> /\ input.before # <<>>
         /\ Cardinality({ i \in 1..Len(input.env[1]) :
                            input.env[1][i].key = "CREDENTIAL_ID" }) = 1
         /\ \A i \in 1..Len(input.env[1]) :
              input.env[1][i].key = "CREDENTIAL_ID" =>
                \E k \in 1..Len(last.resp.nodes) :
                  /\ IsCreatedCredentialWithIndex(last.resp.nodes[k])
                  /\ input.env[1][i].value = last.resp.nodes[k].LedgerIndex
         /\ OtherLines(input.env[1]) = OtherLines(input.before[1])
    /\ ~Succeeded(last.resp) => input.env = input.before

\* C26 witness: the identifier replaces an older one in a file whose
\* CREDENTIAL_ID line comes first, and the file's other line is untouched.
C26_Witness ==
  /\ ~input.pending /\ input.env # input.before
  /\ input.before[1][1] = EnvLine("CREDENTIAL_ID", "OLD", FALSE)
  /\ input.env[1][1].value = "ID1"
  /\ input.env[1][2] = input.before[1][2]

-----------------------------------------------------------------------------
(* getCredentials on entries whose Flags carry other bits than lsfAccepted *)

\* Flags bits other than 0x00010000: none, the lowest, the two next to it,
\* and a high one.
OtherFlagBits == {0, 1, 32768, 131072, 1073741824}

\* The issuer's account when the run starts: no entry, or one entry, not
\* yet accepted or accepted before the run.
FlagLedgers ==
  {<<>>} \cup
  { << [EntryOfCreate(CredentialCreateTx(r)) EXCEPT !.Flags = b + a] >> :
      r \in { x \in LifeRequests : x.subject = "rAlice" },
      b \in OtherFlagBits, a \in {0, lsfAccepted} }

\* accept-credential.ts for one credential type, accepted or rejected by
\* the ledger.
FlagsAccept ==
  /\ \E account \in Subjects :
       \E resp \in { WithMeta(c, FALSE, <<>>) : c \in {TesSuccess, "tecNO_ENTRY"} } :
         AcceptCredentialWith(account, TypeA, resp)
  /\ history' = HistoryAfter(history, last')
  /\ UNCHANGED input

InitFlags ==
  /\ ledger \in FlagLedgers
  /\ flags = 0
  /\ preauths = <<>>
  /\ input = NoInput
  /\ history = [NoHistory EXCEPT !.accepted =
                  { CredentialKey(ledger[i].Subject, ledger[i].CredentialType) :
                      i \in { j \in 1..Len(ledger) :
                                BitSet(ledger[j].Flags, lsfAccepted) } }]
  /\ last = [op |-> "none"]

NextFlags ==
  \/ ReadsIssue
  \/ FlagsAccept
  \/ ReadsRevoke
  \/ LifeList

SpecFlags == InitFlags /\ [][NextFlags]_vars

-----------------------------------------------------------------------------
(* Claim C27                                                               *)

\* C27: the accepted value listed for an entry is true exactly when bit
\* 0x00010000 of its Flags is set, whatever its other bits are, and it is
\* true only for an entry whose accept has succeeded since it was created.
C27_AcceptedIsTheAcceptedBit ==
  ListCalled /\ ~last.qresp.threw /\ last.qresp.hasList =>
    /\ Len(last.outcome.value) = Cardinality(ShownBy(last.subject))
    /\ \A k \in 1..Len(last.outcome.value) :
         LET entry == ledger[KthOf(ShownBy(last.subject), k)]
             cred == last.outcome.value[k]
         IN /\ cred.accepted = (entry.Flags % (2 * 65536) >= 65536)
            /\ cred.accepted => KeyOfListed(cred) \in history.accepted

\* C27 witness: an entry created and accepted during the run is listed as
\* accepted next to an entry whose Flags hold only the bit above 0x00010000,
\* which is listed as not accepted.
C27_Witness ==
  /\ ListCalled /\ last.subject = "" /\ last.outcome.kind = "return"
  /\ Len(last.outcome.value) = 2
  /\ ledger[1].Flags = 131072 /\ ~last.outcome.value[1].accepted
  /\ ledger[2].Flags = lsfAccepted /\ last.outcome.value[2].accepted

-----------------------------------------------------------------------------
(* Claim C28                                                               *)

\* C28: sendXRP always returns.  The returned success is true exactly when
\* the ledger's result code of the payment is tesSUCCESS; any other result
\* code is returned unchanged in error, with success false and the hash of
\* the transaction; an exception of autofill, sign or submitAndWait is
\* returned as success false without a hash.
C28_SendReturnsTheLedgerCode ==
  last.op = "send" =>
    /\ last.outcome.kind = "return"
    /\ last.outcome.value.success
         = (~last.resp.threw /\ last.resp.meta /\ last.resp.code = "tesSUCCESS")
    /\ (~last.resp.threw /\ last.resp.meta /\ last.resp.code # "tesSUCCESS") =>
         /\ last.outcome.value.error = <<last.resp.code>>
         /\ last.outcome.value.hash # <<>>
    /\ last.resp.threw =>
         /\ last.outcome.value.hash = <<>>
         /\ last.outcome.value.error # <<>>

\* C28 witness: a payment the ledger refuses with tecNO_PERMISSION is
\* returned as a failure that carries this code and the transaction's hash.
C28_Witness ==
  /\ last.op = "send" /\ ~last.resp.threw /\ last.resp.meta
  /\ last.resp.code = "tecNO_PERMISSION"
  /\ last.outcome.kind = "return"
  /\ ~last.outcome.value.success
  /\ last.outcome.value.error = <<"tecNO_PERMISSION">>
  /\ last.outcome.value.hash = <<TxHash(last.txs[1])>>

-----------------------------------------------------------------------------
(* examples/transfer-to-verity and examples/transfer-to-issuer:            *)
(* testTransfersToIssuer                                                   *)

\* process.env.CREDENTIAL_ID: unset, empty (the value createAccounts
\* writes), or an identifier saved by an issue script.
CredentialIdSettings ==
  {<<>>, <<"">>}
    \cup { <<CredentialIndex(CredentialCreateTx(r))>> :
             r \in { x \in Requests : x.subject = "rAlice" } }

\* const credentialID = process.env.CREDENTIAL_ID || ""
ConfiguredId(setting) == IF setting = <<>> THEN "" ELSE setting[1]

\* The credentialIDs argument of Alice's sendXRP: [credentialID] in
\* transfer-to-verity, credentialID ? [credentialID] : undefined in
\* transfer-to-issuer.
AliceCredentialIDs(script, credentialID) ==
  IF script = "verity" \/ credentialID # ""
  THEN << <<credentialID>> >>
  ELSE <<>>

\* The destination of both payments.
TransferDestination(script) ==
  IF script = "verity" THEN VerityAddress ELSE WalletAddress

\* await client.connect(), before the try block.
TransferConnect ==
  /\ input.pending /\ input.step = "connect"
  /\ \E threw \in BOOLEAN :
       input' = IF threw
                THEN [input EXCEPT !.pending = FALSE, !.step = "ended"]
                ELSE [input EXCEPT !.connected = TRUE, !.step = "wallets"]
  /\ UNCHANGED <<ledger, depositVars, history, last>>

\* Wallet.fromSeed for Alice and Bob; a seed that is not valid throws.
TransferWallets ==
  /\ input.pending /\ input.step = "wallets"
  /\ \E threw \in BOOLEAN :
       input' = [input EXCEPT !.step = IF threw THEN "finally" ELSE "prompt"]
  /\ UNCHANGED <<ledger, depositVars, history, last>>

\* getUserConfirmation; "Test cancelled" returns from the try block.
TransferPrompt ==
  /\ input.pending /\ input.step = "prompt"
  /\ \E answer \in Answers :
       input' = [input EXCEPT !.confirmed = <<Confirms(answer)>>,
                              !.step = IF Confirms(answer) THEN "alice" ELSE "finally"]
  /\ UNCHANGED <<ledger, depositVars, history, last>>

\* 1. Alice's transfer, with the configured credential identifier.
TransferAlice ==
  /\ input.pending /\ input.step = "alice"
  /\ \E closeTime \in CloseTimes :
       SendXRPTo("rAlice", TransferDestination(input.script),
                 AliceCredentialIDs(input.script, ConfiguredId(input.setting)),
                 closeTime)
  /\ input' = [input EXCEPT !.step = "bob", !.requests = @ + Len(last'.txs)]
  /\ UNCHANGED history

\* 2. Bob's transfer, without the credentialIDs argument.
TransferBob ==
  /\ input.pending /\ input.step = "bob"
  /\ \E closeTime \in CloseTimes :
       SendXRPTo("rBob", TransferDestination(input.script), <<>>, closeTime)
  /\ input' = [input EXCEPT !.step = "finally", !.requests = @ + Len(last'.txs)]
  /\ UNCHANGED history

\* finally { await client.disconnect() }
TransferDisconnect ==
  /\ input.pending /\ input.step = "finally"
  /\ input' = [input EXCEPT !.connected = FALSE, !.disconnects = @ + 1,
                            !.pending = FALSE, !.step = "ended"]
  /\ UNCHANGED <<ledger, depositVars, history, last>>

InitTransfer ==
  /\ ledger \in ScenarioLedgers
  /\ flags \in {0, lsfDepositAuth}
  /\ preauths \in { p \in PreauthLists : Len(p) <= 1 }
  /\ input \in { [ pending |-> TRUE, script |-> s, setting |-> c,
                   step |-> "connect", connected |-> FALSE, disconnects |-> 0,
                   confirmed |-> <<>>, requests |-> 0 ] :
                   s \in {"verity", "issuer"}, c \in CredentialIdSettings }
  /\ history = NoHistory
  /\ last = [op |-> "none"]

NextTransfer ==
  \/ TransferConnect
  \/ TransferWallets
  \/ TransferPrompt
  \/ TransferAlice
  \/ TransferBob
  \/ TransferDisconnect

SpecTransfer == InitTransfer /\ [][NextTransfer]_vars

-----------------------------------------------------------------------------
(* Claim C29                                                               *)

\* C29: a payment of the transfer scripts has the CredentialIDs field only
\* when a non-empty CREDENTIAL_ID is configured, and the field is then the
\* list of exactly that identifier; with CREDENTIAL_ID unset or empty
\* Alice's payment has no CredentialIDs field, and Bob's payment never has.
C29_CredentialIDsOnlyWhenConfigured ==
  last.op = "send" =>
    LET tx == last.txs[1]
        id == ConfiguredId(input.setting)
    IN /\ tx.Account = "rBob" => tx.CredentialIDs = <<>>
       /\ tx.Account = "rAlice" =>
            tx.CredentialIDs = IF id = "" THEN <<>> ELSE << <<id>> >>

-----------------------------------------------------------------------------
(* The control flow of every script between connect and disconnect         *)

RunScripts ==
  { "index", "accept-credential", "issue-credential", "issue-credential-direct",
    "create-accounts", "revoke-credential", "revoke-credential-direct",
    "transfer-to-verity", "transfer-to-issuer", "view-credential",
    "view-credential-direct", "credential-preauth" }

\* The scripts that call client.connect() inside the try block.
ConnectInTry(script) ==
  script \in { "index", "issue-credential-direct", "revoke-credential-direct",
               "view-credential-direct" }

\* Faulty variant: no script has a finally block; disconnect is the last
\* statement of the try block.
HasFinallyNowhere(script) == FALSE

\* Every script but index calls client.disconnect() in a finally block;
\* index calls it as the last statement of its try block.
HasFinally(script) == script # "index"

\* The steps of each script after connect, in order.  check: a test of the
\* environment or Wallet.fromSeed; request: a query; list: a query whose
\* empty result returns from the script; prompt: getUserConfirmation; find:
\* the lookup of the target; submit: a transaction whose rejection throws;
\* accept: a transaction whose rejection is logged; send: sendXRP, which
\* returns every failure; write: a write of the .env file.
StepsOf(script) ==
  CASE script = "index"                    -> <<>>
    [] script = "accept-credential"        -> <<"check", "accept">>
    [] script = "issue-credential"         -> <<"check", "submit", "request">>
    [] script = "issue-credential-direct"  -> <<"check", "submit", "write", "request">>
    [] script = "create-accounts"          ->
         <<"request", "request", "request", "request",
           "request", "request", "request", "request", "write">>
    [] script = "revoke-credential"        ->
         <<"check", "list", "prompt", "submit", "request">>
    [] script = "revoke-credential-direct" ->
         <<"check", "list", "prompt", "find", "submit", "request">>
    [] script = "transfer-to-verity"       -> <<"check", "prompt", "send", "send">>
    [] script = "transfer-to-issuer"       ->
         <<"check", "prompt", "check", "send", "send">>
    [] script = "view-credential"          -> <<"check", "request">>
    [] script = "view-credential-direct"   -> <<"check", "request">>
    [] script = "credential-preauth"       ->
         <<"check", "request", "check", "submit", "request">>

\* How a step can end.
StepOutcomes(kind) ==
  CASE kind = "check"   -> {"ok", "raised"}
    [] kind = "request" -> {"ok", "raised"}
    [] kind = "list"    -> {"ok", "raised", "returned"}
    [] kind = "prompt"  -> {"ok", "cancelled"}
    [] kind = "find"    -> {"ok", "returned"}
    [] kind = "submit"  -> {"ok", "rejected", "raised"}
    [] kind = "accept"  -> {"ok", "rejected", "raised"}
    [] kind = "send"    -> {"ok", "rejected", "raised"}
    [] kind = "write"   -> {"ok", "raised"}

\* The steps that use the client.
UsesClient(kind) == kind \in {"request", "list", "submit", "accept", "send"}

\* The script goes on to its next step; otherwise it leaves the try block
\* by return or by an exception.
Continues(kind, outcome) ==
  \/ outcome = "ok"
  \/ kind = "accept" /\ outcome = "rejected"
  \/ kind = "send"

\* Where control goes when the try block is left by return or exception.
LeaveTry(script) == IF HasFinally(script) THEN "finally" ELSE "ended"

\* await client.connect()
RunConnect ==
  /\ input.pending /\ input.pc = "connect"
  /\ \E threw \in BOOLEAN :
       input' = IF ~threw
                THEN [input EXCEPT !.connected = TRUE, !.pc = "try"]
                ELSE IF ConnectInTry(input.script)
                THEN [input EXCEPT !.path = "raised", !.pc = LeaveTry(input.script),
                                   !.pending = LeaveTry(input.script) # "ended"]
                ELSE [input EXCEPT !.path = "raised", !.pc = "ended",
                                   !.pending = FALSE]
  /\ UNCHANGED <<ledger, depositVars, history, last>>

\* The next step of the try block.
RunStep ==
  /\ input.pending /\ input.pc = "try"
  /\ input.at <= Len(StepsOf(input.script))
  /\ LET kind == StepsOf(input.script)[input.at]
     IN \E outcome \in StepOutcomes(kind) :
          input' =
            [input EXCEPT
               !.requests = IF UsesClient(kind) THEN @ + 1 ELSE @,
               !.late = @ \/ (UsesClient(kind) /\ input.disconnects > 0),
               !.path = IF outcome = "ok" THEN @ ELSE outcome,
               !.at = IF Continues(kind, outcome) THEN @ + 1 ELSE @,
               !.pc = IF Continues(kind, outcome) THEN "try"
                      ELSE LeaveTry(input.script),
               !.pending = Continues(kind, outcome)
                             \/ LeaveTry(input.script) # "ended"]
  /\ UNCHANGED <<ledger, depositVars, history, last>>

\* The end of the try block: index disconnects there, the other scripts go
\* on to their finally block.
RunEndOfTry ==
  /\ input.pending /\ input.pc = "try"
  /\ input.at > Len(StepsOf(input.script))
  /\ input' = IF HasFinally(input.script)
              THEN [input EXCEPT !.pc = "finally"]
              ELSE [input EXCEPT !.connected = FALSE, !.disconnects = @ + 1,
                                 !.pending = FALSE, !.pc = "ended"]
  /\ UNCHANGED <<ledger, depositVars, history, last>>

\* finally { await client.disconnect() }
RunDisconnect ==
  /\ input.pending /\ input.pc = "finally"
  /\ input' = [input EXCEPT !.connected = FALSE, !.disconnects = @ + 1,
                            !.pending = FALSE, !.pc = "ended"]
  /\ UNCHANGED <<ledger, depositVars, history, last>>

InitRuns ==
  /\ ledger = <<>>
  /\ flags = 0
  /\ preauths = <<>>
  /\ input \in { [ pending |-> TRUE, script |-> s, pc |-> "connect", at |-> 1,
                   connected |-> FALSE, disconnects |-> 0, requests |-> 0,
                   late |-> FALSE, path |-> "success" ] : s \in RunScripts }
  /\ history = NoHistory
  /\ last = [op |-> "none"]

NextRuns ==
  \/ RunConnect
  \/ RunStep
  \/ RunEndOfTry
  \/ RunDisconnect

\* Every await of a script settles: a request is answered or times out, and
\* the prompt is answered, so a script that can take a step takes it.
SpecRuns == InitRuns /\ [][NextRuns]_vars /\ WF_vars(NextRuns)

-----------------------------------------------------------------------------
(* Claim C30                                                               *)

\* C30: a script run whose client has connected eventually disconnects it,
\* whether the run succeeds, a transaction is rejected, an error is raised,
\* the user cancels or the script returns early; no run calls disconnect
\* more than once, and none uses the client after disconnecting.
C30_ConnectedRunsDisconnectOnce ==
  /\ [](input.disconnects <= 1 /\ ~input.late)
  /\ [](input.disconnects = 1 => ~input.connected)
  /\ (input.connected ~> (~input.connected /\ input.disconnects = 1))

\* C30 witness: a run that connected, sent a request and raised an error
\* has ended with its one disconnect.
C30_Witness ==
  /\ input.pc = "ended" /\ input.path = "raised"
  /\ input.requests > 0
  /\ ~input.connected /\ input.disconnects = 1

====
